---------------------------- MODULE Spec2Model ----------------------------
(***************************************************************************)
(* Model of the ComfyUI node organizer: the Sugiyama-style layout of a    *)
(* whole graph (layoutGraph) and the layout of selected groups            *)
(* (layoutSelectedGroups).                                                 *)
(*                                                                         *)
(* A graph is a record [nodes, groups, links]: three sequences whose       *)
(* order is the order of LGraph._nodes, LGraph._groups and graph.links.    *)
(* The id of a node, group or link is its index.  A node is                *)
(* [x, y, w, h, pinned, locked, type], a group is [x, y, w, h, title], a   *)
(* link is [origin, target].  The input and output slots of a node are     *)
(* the links that name it as target and origin, in link order.             *)
(*                                                                         *)
(* Coordinates are integers in units of 1/12 pixel, so that the halves and *)
(* thirds the code computes are exact; Div refuses an inexact division.    *)
(***************************************************************************)
EXTENDS Integers, Sequences, FiniteSets, TLC

Px(n) == n * 12

Div(a, b) == CHOOSE q \in {a \div b} : q * b = a

(* ----------------------------- DEFAULT_CONFIG --------------------------- *)

DEFAULT_CONFIG ==
  [ horizontalGap   |-> Px(100),
    verticalGap     |-> Px(40),
    groupPadding    |-> Px(30),
    startX          |-> Px(100),
    startY          |-> Px(100),
    maxIterations   |-> 24,
    maxColumns      |-> 0,
    maxRowWidth     |-> Px(800),
    collapseReroutes |-> TRUE,
    disconnectedGap |-> Px(150) ]

GROUP_TITLE_HEIGHT == Px(50)

MIN_LAYER_WIDTH == Px(100)

(* ------------------------------- utilities ------------------------------ *)

(* Body applied to val: names a value the code computes once and then     *)
(* reads several times (a const or let of the source).                     *)
With(val, Body(_)) == CHOOSE r \in { Body(x) : x \in {val} } : TRUE

Max(a, b) == IF a >= b THEN a ELSE b

Min(a, b) == IF a <= b THEN a ELSE b

MaxOf(S, d) == IF S = {} THEN d ELSE CHOOSE m \in S : \A k \in S : k <= m

MinOf(S, d) == IF S = {} THEN d ELSE CHOOSE m \in S : \A k \in S : m <= k

Range(s) == { s[i] : i \in DOMAIN s }

(* Infinity, the start value of the minimum and maximum loops of the code: *)
(* a number beyond every coordinate, standing for the float Infinity.      *)
(* A number is finite while it is nearer to 0 than to an Infinity, so that *)
(* Infinity plus or minus a padding or a size is not finite either.        *)
Infinity == 100000000

isFinite(v) == 2 * v < Infinity /\ -Infinity < 2 * v

Contains(s, e) == \E i \in DOMAIN s : s[i] = e

RECURSIVE SumSeq(_)
SumSeq(s) == IF s = <<>> THEN 0 ELSE Head(s) + SumSeq(Tail(s))

RECURSIVE SetToSeq(_)
SetToSeq(S) ==
  IF S = {} THEN <<>>
  ELSE LET m == CHOOSE k \in S : \A j \in S : k <= j
       IN  <<m>> \o SetToSeq(S \ {m})

(* Array.prototype.sort is stable: an element moves before another one    *)
(* only if the comparator says it is smaller.  Less(a, b) is "compare(a,  *)
(* b) < 0" of a comparator that is a strict weak order.                    *)
StableSort(s, Less(_, _)) ==
  LET n == Len(s)
      Rank(i) == Cardinality({ j \in 1..n :
                    \/ Less(s[j], s[i])
                    \/ (~Less(s[i], s[j]) /\ j < i) }) + 1
  IN  [ k \in 1..n |-> s[CHOOSE i \in 1..n : Rank(i) = k] ]

(* ------------------------------ node flags ------------------------------ *)

IsFixed(n) == n.pinned \/ n.locked

RerouteTypes == { "Reroute", "Reroute (rgthree)" }

isRerouteNode(n) == n.type \in RerouteTypes

NodeIds(g) == 1..Len(g.nodes)

GroupIds(g) == 1..Len(g.groups)

LinkIds(g) == 1..Len(g.links)

(* The links on the input slots and on the output slots of a node, in      *)
(* link order.                                                             *)
incomingLinks(g, id) == SelectSeq([ i \in LinkIds(g) |-> i ],
                                  LAMBDA l : g.links[l].target = id)

outgoingLinks(g, id) == SelectSeq([ i \in LinkIds(g) |-> i ],
                                  LAMBDA l : g.links[l].origin = id)

(* ---------------------------- classifyNodes ----------------------------- *)

classifyNodes(g) ==
  LET hasLinks == { g.links[l].origin : l \in LinkIds(g) }
                    \cup { g.links[l].target : l \in LinkIds(g) }
      reroute(id) == isRerouteNode(g.nodes[id])
  IN  [ reroutes     |-> { id \in NodeIds(g) : reroute(id) },
        connected    |-> { id \in NodeIds(g) : id \in hasLinks },
        disconnected |-> { id \in NodeIds(g) :
                             ~reroute(id) /\ id \notin hasLinks } ]

(* ------------------------- reroute chain collapse ----------------------- *)

(* The walk of traceRerouteChain from currentId: st is [nodes, targets,    *)
(* visited].  Of several unvisited reroute successors the last one is      *)
(* followed.                                                               *)
RECURSIVE traceRerouteChain(_, _, _, _)
traceRerouteChain(g, reroutes, currentId, st) ==
  IF ~(currentId \in reroutes /\ currentId \notin st.visited) THEN st
  ELSE
    LET visited  == st.visited \cup {currentId}
        nodes    == Append(st.nodes, currentId)
        outgoing == outgoingLinks(g, currentId)
        tgt(k)   == g.links[outgoing[k]].target
        nexts    == { k \in DOMAIN outgoing :
                        tgt(k) \in reroutes /\ tgt(k) \notin visited }
        added    == SelectSeq([ k \in DOMAIN outgoing |-> tgt(k) ],
                              LAMBDA t : t \notin reroutes)
        st1      == [ nodes |-> nodes, targets |-> st.targets \o added,
                      visited |-> visited ]
    IN  IF outgoing = <<>> THEN [ st EXCEPT !.nodes = nodes, !.visited = visited ]
        ELSE IF nexts = {} THEN st1
        ELSE traceRerouteChain(g, reroutes, tgt(MaxOf(nexts, 0)), st1)

(* findRerouteChains: acc is [chains, visited]; one trace per link that    *)
(* enters a reroute from a node that is not a reroute.                     *)
RECURSIVE chainsFromLinks(_, _, _, _, _)
chainsFromLinks(g, reroutes, rerouteId, incoming, acc) ==
  IF incoming = <<>> THEN acc
  ELSE
    LET link == g.links[Head(incoming)]
        tr   == traceRerouteChain(g, reroutes, rerouteId,
                  [ nodes |-> <<>>, targets |-> <<>>, visited |-> acc.visited ])
        acc1 == IF link.origin \in reroutes THEN acc
                ELSE [ chains  |-> IF tr.nodes = <<>> THEN acc.chains
                                   ELSE Append(acc.chains,
                                          [ nodes |-> tr.nodes,
                                            sourceNode |-> link.origin,
                                            targets |-> tr.targets ]),
                       visited |-> tr.visited ]
    IN  chainsFromLinks(g, reroutes, rerouteId, Tail(incoming), acc1)

RECURSIVE chainsFromReroutes(_, _, _, _)
chainsFromReroutes(g, reroutes, todo, acc) ==
  IF todo = <<>> THEN acc.chains
  ELSE
    LET rerouteId == Head(todo)
        acc1 == IF rerouteId \in acc.visited THEN acc
                ELSE chainsFromLinks(g, reroutes, rerouteId,
                                     incomingLinks(g, rerouteId), acc)
    IN  chainsFromReroutes(g, reroutes, Tail(todo), acc1)

findRerouteChains(g, reroutes) ==
  IF reroutes = {} THEN <<>>
  ELSE chainsFromReroutes(g, reroutes, SetToSeq(reroutes),
                          [ chains |-> <<>>, visited |-> {} ])

getRerouteNodeIds(chains) ==
  UNION { Range(chains[c].nodes) : c \in DOMAIN chains }

(* --------------------------- group hierarchy ---------------------------- *)

groupContainsGroup(outer, inner) ==
  /\ inner.x >= outer.x
  /\ inner.y >= outer.y
  /\ inner.x + inner.w <= outer.x + outer.w
  /\ inner.y + inner.h <= outer.y + outer.h

(* The origin of the node is inside the content area of the group, which   *)
(* is the rectangle of the group without its title bar.                    *)
nodeInsideGroup(node, group) ==
  LET gx == group.x
      gy == group.y + GROUP_TITLE_HEIGHT
      gw == group.w
      gh == group.h - GROUP_TITLE_HEIGHT
  IN  /\ node.x >= gx
      /\ node.x < gx + gw
      /\ node.y >= gy
      /\ node.y < gy + gh

Area(group) == group.w * group.h

(* The parent of a group is the containing group of the smallest area,     *)
(* the first one in case of a tie; 0 stands for null.                      *)
bestParent(groups, inner) ==
  LET outers == { o \in DOMAIN groups :
                    o # inner /\ groupContainsGroup(groups[o], groups[inner]) }
      smallest == { o \in outers :
                      \A o2 \in outers : Area(groups[o]) <= Area(groups[o2]) }
  IN  MinOf(smallest, 0)

(* The number of parent links from cur to a root, or -1 when the chain of  *)
(* parents from cur never reaches a root.                                  *)
RECURSIVE stepsToRoot(_, _, _)
stepsToRoot(parent, cur, fuel) ==
  IF parent[cur] = 0 THEN 0
  ELSE IF fuel = 0 THEN -1
  ELSE LET up == stepsToRoot(parent, parent[cur], fuel - 1)
       IN  IF up < 0 THEN -1 ELSE up + 1

(* buildGroupHierarchy: the breadth-first walk from the roots gives a      *)
(* group the number of its ancestors; a group the walk never reaches       *)
(* keeps depth 0.                                                          *)
buildGroupHierarchy(groups) ==
  LET parent == [ i \in DOMAIN groups |-> bestParent(groups, i) ]
  IN  [ i \in DOMAIN groups |->
          [ parentGroup |-> parent[i],
            childGroups |-> SelectSeq([ k \in DOMAIN groups |-> k ],
                                      LAMBDA c : parent[c] = i),
            depth       |-> Max(0, stepsToRoot(parent, i, Len(groups))) ] ]

(* getTopLevelGroup follows parentGroup while there is one; 0 stands for   *)
(* a walk that never ends.                                                 *)
RECURSIVE climb(_, _, _)
climb(hier, cur, fuel) ==
  IF hier[cur].parentGroup = 0 THEN cur
  ELSE IF fuel = 0 THEN 0
  ELSE climb(hier, hier[cur].parentGroup, fuel - 1)

getTopLevelGroup(hier, gi) == climb(hier, gi, Len(hier))

(* The deepest group that contains the origin of the node, the first one   *)
(* in case of a tie; 0 when no group contains it.                          *)
innermostGroup(groups, hier, node) ==
  LET inside == { i \in DOMAIN groups : nodeInsideGroup(node, groups[i]) }
      deepest == { i \in inside :
                     \A k \in inside : hier[k].depth <= hier[i].depth }
  IN  MinOf(deepest, 0)

(* ---------------------- layers inside one group ------------------------- *)

(* getInternalEdges: for every member, in order, one edge for each input   *)
(* link whose origin is a member too.                                      *)
getInternalEdges(g, memberIds) ==
  LET members == Range(memberIds)
      RECURSIVE collect(_)
      collect(todo) ==
        IF todo = <<>> THEN <<>>
        ELSE LET id  == Head(todo)
                 ins == SelectSeq(incomingLinks(g, id),
                          LAMBDA l : g.links[l].origin \in members)
             IN  [ k \in DOMAIN ins |-> <<g.links[ins[k]].origin, id>> ]
                   \o collect(Tail(todo))
  IN  collect(memberIds)

(* The members the topological walk of assignMemberLayers takes from its   *)
(* queue: those all of whose predecessors were taken before.               *)
RECURSIVE dequeued(_, _, _)
dequeued(members, edges, done) ==
  LET more == { m \in members \ done :
                  \A e \in Range(edges) : e[2] = m => e[1] \in done }
  IN  IF more = {} THEN done ELSE dequeued(members, edges, done \cup more)

(* nodeLayer of assignMemberLayers: the longest path from a source over    *)
(* dequeued predecessors; 0 for a member without any.                      *)
RECURSIVE memberLayer(_, _, _)
memberLayer(edges, done, m) ==
  LET preds == { e[1] : e \in { e2 \in Range(edges) :
                                  e2[2] = m /\ e2[1] \in done } }
  IN  MaxOf({ memberLayer(edges, done, p) + 1 : p \in preds }, 0)

(* assignMemberLayers: the members by layer, in member order.              *)
assignMemberLayers(memberIds, edges) ==
  LET done     == dequeued(Range(memberIds), edges, {})
      layerOf  == [ m \in Range(memberIds) |-> memberLayer(edges, done, m) ]
      maxLayer == MaxOf({ layerOf[m] : m \in Range(memberIds) }, 0)
  IN  [ l \in 1..(maxLayer + 1) |->
          SelectSeq(memberIds, LAMBDA m : layerOf[m] = l - 1) ]

(* ----------------------------- group sizes ------------------------------ *)

calculateGroupMemberDimensions(g, memberIds, config) ==
  LET edges  == getInternalEdges(g, memberIds)
      layers == assignMemberLayers(memberIds, edges)
      stackHeight(ids) ==
        LET sum == SumSeq([ k \in DOMAIN ids |->
                              g.nodes[ids[k]].h + config.verticalGap ])
        IN  IF sum > 0 THEN sum - config.verticalGap ELSE sum
      maxWidth(ids) == MaxOf({ g.nodes[ids[k]].w : k \in DOMAIN ids }, 0)
      used == SelectSeq(layers, LAMBDA l : l # <<>>)
      totalWidth == SumSeq([ k \in DOMAIN used |->
                               maxWidth(used[k]) + config.horizontalGap ])
  IN  IF memberIds = <<>> THEN [ width |-> 0, height |-> 0 ]
      ELSE IF edges # <<>>
      THEN [ width  |-> IF totalWidth > 0
                        THEN totalWidth - config.horizontalGap ELSE totalWidth,
             height |-> MaxOf({ stackHeight(used[k]) : k \in DOMAIN used }, 0) ]
      ELSE [ width |-> maxWidth(memberIds), height |-> stackHeight(memberIds) ]

(* The fifth pass of buildLayoutGraph, one group after the other, deepest  *)
(* depth first: dims is the width and height of every group so far.        *)
RECURSIVE groupSizes(_, _, _, _, _, _)
groupSizes(g, hier, memberIds, config, order, dims) ==
  IF order = <<>> THEN dims
  ELSE
    LET gi       == Head(order)
        member   == calculateGroupMemberDimensions(g, memberIds[gi], config)
        children == hier[gi].childGroups
        totalWidth == MaxOf({ dims[children[k]].width : k \in DOMAIN children }
                              \cup { member.width }, 0)
        childGroupsHeight ==
          SumSeq([ k \in DOMAIN children |->
                     dims[children[k]].height + config.verticalGap ])
        totalHeight ==
          member.height
            + (IF member.height > 0 /\ childGroupsHeight > 0
               THEN config.verticalGap ELSE 0)
            + childGroupsHeight
    IN  groupSizes(g, hier, memberIds, config, Tail(order),
          [ k \in DOMAIN dims |->
              IF k = gi
              THEN [ width  |-> totalWidth + config.groupPadding * 2,
                     height |-> totalHeight + config.groupPadding * 2
                                  + GROUP_TITLE_HEIGHT ]
              ELSE dims[k] ])

(* The groups in the order of the bottom-up passes: by decreasing depth,   *)
(* in list order within one depth.                                         *)
bottomUpOrder(hier) ==
  StableSort([ k \in DOMAIN hier |-> k ],
             LAMBDA a, b : hier[a].depth > hier[b].depth)

(* --------------------------- buildLayoutGraph --------------------------- *)

RECURSIVE Dedupe(_)
Dedupe(s) ==
  IF s = <<>> THEN <<>>
  ELSE LET front == Dedupe(SubSeq(s, 1, Len(s) - 1))
           last  == s[Len(s)]
       IN  IF Contains(front, last) THEN front ELSE Append(front, last)

(* getVirtualEdges: a map from a chain source to the set of its targets,   *)
(* listed in insertion order.                                              *)
getVirtualEdges(chains) ==
  LET sources == Dedupe([ c \in DOMAIN chains |-> chains[c].sourceNode ])
      RECURSIVE targetsOf(_, _)
      targetsOf(src, todo) ==
        IF todo = <<>> THEN <<>>
        ELSE (IF Head(todo).sourceNode = src THEN Head(todo).targets ELSE <<>>)
               \o targetsOf(src, Tail(todo))
      RECURSIVE edgesOf(_)
      edgesOf(todo) ==
        IF todo = <<>> THEN <<>>
        ELSE LET ts == Dedupe(targetsOf(Head(todo), chains))
             IN  [ k \in DOMAIN ts |-> <<Head(todo), ts[k]>> ]
                   \o edgesOf(Tail(todo))
  IN  edgesOf(sources)

(* The state buildLayoutGraph returns.  A layout group is [memberIds,      *)
(* childGroups, parentGroup, depth, width, height]; a layout node is       *)
(* [width, height, isGroupRepresentative, group, predecessors,             *)
(* successors].  topOf is getTopLevelGroup of the group of every node the  *)
(* sixth pass looks at.                                                    *)
layoutNodes(g, nodeIds, nodeToGroup, topOf, dims, adjacency) ==
  [ id \in nodeIds |->
      LET rep == nodeToGroup[id] # 0
          first(edges)  == [ k \in DOMAIN edges |-> edges[k][1] ]
          second(edges) == [ k \in DOMAIN edges |-> edges[k][2] ]
      IN  [ width  |-> IF rep THEN dims[topOf[id]].width ELSE g.nodes[id].w,
            height |-> IF rep THEN dims[topOf[id]].height ELSE g.nodes[id].h,
            isGroupRepresentative |-> rep,
            group  |-> IF rep THEN topOf[id] ELSE 0,
            predecessors |->
              first(Dedupe(SelectSeq(adjacency, LAMBDA e : e[2] = id))),
            successors   |->
              second(Dedupe(SelectSeq(adjacency, LAMBDA e : e[1] = id))) ] ]

(* The adjacency the sixth pass builds: an edge for every link between     *)
(* nodes that are not collapsed and for every virtual edge, from and to    *)
(* the effective node of its ends, unless both ends are in one top-level   *)
(* group.                                                                  *)
layoutEdges(g, rerouteChains, nodeToGroup, topOf, groupRepresentatives) ==
  LET collapsedRerouteIds == getRerouteNodeIds(rerouteChains)
      effective(id) == IF nodeToGroup[id] # 0
                       THEN groupRepresentatives[topOf[id]] ELSE id
      sameTop(a, b) == /\ nodeToGroup[a] # 0
                       /\ nodeToGroup[b] # 0
                       /\ topOf[a] = topOf[b]
      ends(edges) == [ k \in DOMAIN edges |->
                         <<effective(edges[k][1]), effective(edges[k][2])>> ]
      real(links) == [ k \in DOMAIN links |->
                         <<links[k].origin, links[k].target>> ]
  IN  ends(real(SelectSeq(g.links, LAMBDA l :
                  /\ l.origin \notin collapsedRerouteIds
                  /\ l.target \notin collapsedRerouteIds
                  /\ ~sameTop(l.origin, l.target))))
        \o ends(SelectSeq(getVirtualEdges(rerouteChains),
                          LAMBDA e : ~sameTop(e[1], e[2])))

buildLayoutGraph(g, config) ==
  With(classifyNodes(g), LAMBDA classified :
  With(IF config.collapseReroutes /\ classified.reroutes # {}
       THEN findRerouteChains(g, classified.reroutes) ELSE <<>>,
       LAMBDA rerouteChains :
  With(buildGroupHierarchy(g.groups), LAMBDA hier :
  With([ id \in NodeIds(g) |-> innermostGroup(g.groups, hier, g.nodes[id]) ],
       LAMBDA nodeToGroup :
  With([ gi \in GroupIds(g) |->
           SelectSeq([ k \in NodeIds(g) |-> k ],
                     LAMBDA id : nodeToGroup[id] = gi) ],
       LAMBDA memberIds :
  With(groupSizes(g, hier, memberIds, config, bottomUpOrder(hier),
                  [ gi \in GroupIds(g) |-> [ width |-> 0, height |-> 0 ] ]),
       LAMBDA dims :
  With([ id \in NodeIds(g) |->
           IF nodeToGroup[id] = 0 THEN 0
           ELSE getTopLevelGroup(hier, nodeToGroup[id]) ],
       LAMBDA topOf :
  With({ id \in NodeIds(g) :
           /\ id \notin classified.disconnected
           /\ id \notin getRerouteNodeIds(rerouteChains) },
       LAMBDA laidOut :
  With([ gi \in GroupIds(g) |->
           MinOf({ id \in laidOut : nodeToGroup[id] # 0 /\ topOf[id] = gi }, 0) ],
       LAMBDA groupRepresentatives :
  With({ id \in laidOut : \/ nodeToGroup[id] = 0
                          \/ groupRepresentatives[topOf[id]] = id },
       LAMBDA nodeIds :
    [ nodeIds |-> nodeIds,
      nodes |-> layoutNodes(g, nodeIds, nodeToGroup, topOf, dims,
                  layoutEdges(g, rerouteChains, nodeToGroup, topOf,
                              groupRepresentatives)),
      groups |-> [ gi \in GroupIds(g) |->
        [ memberIds   |-> memberIds[gi],
          childGroups |-> hier[gi].childGroups,
          parentGroup |-> hier[gi].parentGroup,
          depth       |-> hier[gi].depth,
          width       |-> dims[gi].width,
          height      |-> dims[gi].height ] ],
      nodeToGroup |-> nodeToGroup,
      groupRepresentatives |-> groupRepresentatives,
      disconnectedNodes |-> classified.disconnected,
      rerouteChains |-> rerouteChains,
      config |-> config ]))))))))))

(* buildLayoutGraph returns only if every walk of getTopLevelGroup it      *)
(* starts comes to a group without parent.                                 *)
buildLayoutGraphReturns(g, config) ==
  LET classified == classifyNodes(g)
      rerouteChains ==
        IF config.collapseReroutes /\ classified.reroutes # {}
        THEN findRerouteChains(g, classified.reroutes) ELSE <<>>
      hier == buildGroupHierarchy(g.groups)
  IN  \A id \in NodeIds(g) :
        LET gi == innermostGroup(g.groups, hier, g.nodes[id])
        IN  IF id \in classified.disconnected
               \/ id \in getRerouteNodeIds(rerouteChains)
               \/ gi = 0
            THEN TRUE
            ELSE getTopLevelGroup(hier, gi) # 0

(* ------------------------------ assignLayers ---------------------------- *)

(* Kahn's algorithm of assignLayers: the order in which the nodes leave    *)
(* the queue.                                                              *)
RECURSIVE kahnOrder(_, _, _, _)
kahnOrder(nodes, queue, inDegree, order) ==
  IF queue = <<>> THEN order
  ELSE
    LET nodeId == Head(queue)
        succs  == nodes[nodeId].successors
        deg    == [ id \in DOMAIN inDegree |->
                      IF Contains(succs, id) THEN inDegree[id] - 1
                      ELSE inDegree[id] ]
        ready  == SelectSeq(succs, LAMBDA id : deg[id] = 0)
    IN  kahnOrder(nodes, Tail(queue) \o ready, deg, Append(order, nodeId))

(* The longest-path pass over the order: a predecessor that has no layer   *)
(* yet (layer -1) does not count.                                          *)
(* A layering that differs from the one of the code: a node goes one      *)
(* layer behind the nearest of its predecessors, not the farthest.         *)
RECURSIVE shortestPath(_, _, _)
shortestPath(nodes, order, layer) ==
  IF order = <<>> THEN layer
  ELSE
    LET nodeId == Head(order)
        preds  == nodes[nodeId].predecessors
        minPredLayer ==
          MinOf({ layer[preds[k]] + 1 :
                    k \in { k2 \in DOMAIN preds : layer[preds[k2]] >= 0 } }, 0)
    IN  shortestPath(nodes, Tail(order),
                     [ k \in DOMAIN layer |->
                         IF k = nodeId
                         THEN IF preds = <<>> THEN 0 ELSE minPredLayer
                         ELSE layer[k] ])

RECURSIVE longestPath(_, _, _)
longestPath(nodes, order, layer) ==
  IF order = <<>> THEN layer
  ELSE
    LET nodeId == Head(order)
        preds  == nodes[nodeId].predecessors
        maxPredLayer ==
          MaxOf({ layer[preds[k]] + 1 :
                    k \in { k2 \in DOMAIN preds : layer[preds[k2]] >= 0 } }, 0)
    IN  longestPath(nodes, Tail(order),
                    [ k \in DOMAIN layer |->
                        IF k = nodeId
                        THEN IF preds = <<>> THEN 0 ELSE maxPredLayer
                        ELSE layer[k] ])

(* A layering that differs from the one of the code: the nodes that       *)
(* Kahn's order never reached are not taken up in the order, so that all   *)
(* of them end in layer 0.                                                 *)
assignLayersKahnOnly(state) ==
  LET nodes   == state.nodes
      ids     == SetToSeq(state.nodeIds)
      sources == SelectSeq(ids, LAMBDA id : nodes[id].predecessors = <<>>)
      sorted  == kahnOrder(nodes, sources,
                   [ id \in state.nodeIds |-> Len(nodes[id].predecessors) ], <<>>)
      order   == sorted
      assigned == longestPath(nodes, order, [ id \in state.nodeIds |-> -1 ])
      layer   == [ id \in state.nodeIds |-> Max(assigned[id], 0) ]
      indices == SetToSeq({ layer[id] : id \in state.nodeIds })
  IN  [ layer  |-> layer,
        layers |-> [ k \in DOMAIN indices |->
          LET layerNodes == SelectSeq(ids, LAMBDA id : layer[id] = indices[k])
          IN  [ index    |-> indices[k],
                nodes    |-> layerNodes,
                x        |-> 0,
                maxWidth |-> MaxOf({ nodes[layerNodes[i]].width :
                                       i \in DOMAIN layerNodes }
                                     \cup { MIN_LAYER_WIDTH }, 0) ] ] ]

(* assignLayers: the layer of every layout node and the list of layers,    *)
(* by index, each with its nodes by id.                                    *)
assignLayers(state) ==
  LET nodes   == state.nodes
      ids     == SetToSeq(state.nodeIds)
      sources == SelectSeq(ids, LAMBDA id : nodes[id].predecessors = <<>>)
      sorted  == kahnOrder(nodes, sources,
                   [ id \in state.nodeIds |-> Len(nodes[id].predecessors) ], <<>>)
      order   == sorted \o SelectSeq(ids, LAMBDA id : ~Contains(sorted, id))
      assigned == longestPath(nodes, order, [ id \in state.nodeIds |-> -1 ])
      layer   == [ id \in state.nodeIds |-> Max(assigned[id], 0) ]
      indices == SetToSeq({ layer[id] : id \in state.nodeIds })
  IN  [ layer  |-> layer,
        layers |-> [ k \in DOMAIN indices |->
          LET layerNodes == SelectSeq(ids, LAMBDA id : layer[id] = indices[k])
          IN  [ index    |-> indices[k],
                nodes    |-> layerNodes,
                x        |-> 0,
                maxWidth |-> MaxOf({ nodes[layerNodes[i]].width :
                                       i \in DOMAIN layerNodes }
                                     \cup { MIN_LAYER_WIDTH }, 0) ] ] ]

(* --------------------------- minimizeCrossings -------------------------- *)

(* The entry of heightPositions for a node, doubled: the centre of the     *)
(* node when the nodes of its layer are stacked in their order.            *)
heightPosition2(nodes, orders, id, verticalGap) ==
  LET order == orders[CHOOSE k \in DOMAIN orders : Contains(orders[k], id)]
      at    == CHOOSE i \in DOMAIN order : order[i] = id
  IN  2 * SumSeq([ i \in 1..(at - 1) |-> nodes[order[i]].height + verticalGap ])
        + nodes[id].height

(* The barycenter of a node as a fraction [num, den] of doubled            *)
(* positions, over its neighbours (predecessors or successors) in the      *)
(* layer numbered want; its own position when it has none there.           *)
barycenter(nodes, layer, orders, id, neighbours, want, verticalGap) ==
  LET near == SelectSeq(neighbours, LAMBDA n : layer[n] = want)
  IN  IF near = <<>>
      THEN [ num |-> heightPosition2(nodes, orders, id, verticalGap), den |-> 1 ]
      ELSE [ num |-> SumSeq([ k \in DOMAIN near |->
                        heightPosition2(nodes, orders, near[k], verticalGap) ]),
             den |-> Len(near) ]

(* The sort of one layer by barycenter, ties by id.                        *)
sortByBarycenter(order, bar) ==
  StableSort(order, LAMBDA a, b :
    LET l == bar[a].num * bar[b].den
        r == bar[b].num * bar[a].den
    IN  l < r \/ (l = r /\ a < b))

(* sweepForward from the layer at array index i (counted from 1) on.       *)
RECURSIVE sweepForward(_, _, _, _, _)
sweepForward(nodes, layer, orders, i, verticalGap) ==
  IF i > Len(orders) THEN orders
  ELSE
    LET bar == [ id \in Range(orders[i]) |->
                   barycenter(nodes, layer, orders, id,
                              nodes[id].predecessors, i - 2, verticalGap) ]
    IN  sweepForward(nodes, layer,
          [ k \in DOMAIN orders |->
             IF k = i THEN sortByBarycenter(orders[i], bar) ELSE orders[k] ],
          i + 1, verticalGap)

(* sweepBackward from the layer at array index i (counted from 1) down.    *)
RECURSIVE sweepBackward(_, _, _, _, _)
sweepBackward(nodes, layer, orders, i, verticalGap) ==
  IF i < 1 THEN orders
  ELSE
    LET bar == [ id \in Range(orders[i]) |->
                   barycenter(nodes, layer, orders, id,
                              nodes[id].successors, i, verticalGap) ]
    IN  sweepBackward(nodes, layer,
          [ k \in DOMAIN orders |->
             IF k = i THEN sortByBarycenter(orders[i], bar) ELSE orders[k] ],
          i - 1, verticalGap)

RECURSIVE sweeps(_, _, _, _, _)
sweeps(nodes, layer, orders, iter, config) ==
  IF iter >= config.maxIterations THEN orders
  ELSE
    LET swept == IF iter % 2 = 0
                 THEN sweepForward(nodes, layer, orders, 2, config.verticalGap)
                 ELSE sweepBackward(nodes, layer, orders, Len(orders) - 1,
                                    config.verticalGap)
    IN  IF swept = orders THEN orders
        ELSE sweeps(nodes, layer, swept, iter + 1, config)

(* minimizeCrossings: the order of the nodes in every layer.               *)
minimizeCrossings(nodes, layer, layers, config) ==
  LET orders == [ k \in DOMAIN layers |-> layers[k].nodes ]
      byHeight == [ k \in DOMAIN layers |->
                      StableSort(orders[k], LAMBDA a, b :
                        nodes[a].height > nodes[b].height) ]
  IN  IF Len(layers) < 2 THEN orders
      ELSE sweeps(nodes, layer, byHeight, 0, config)

(* -------------------------------- bin-pack ------------------------------ *)

(* A packed row is [nodes, height, yOffset, width]; sizes maps a node id   *)
(* to [width, height].                                                     *)
RECURSIVE withOffsets(_, _, _)
withOffsets(rows, yOffset, verticalGap) ==
  IF rows = <<>> THEN <<>>
  ELSE <<[ Head(rows) EXCEPT !.yOffset = yOffset ]>>
         \o withOffsets(Tail(rows), yOffset + Head(rows).height + verticalGap,
                        verticalGap)

packVertically(nodeIds, sizes, verticalGap) ==
  withOffsets([ k \in DOMAIN nodeIds |->
                  [ nodes   |-> <<nodeIds[k]>>,
                    height  |-> sizes[nodeIds[k]].height,
                    yOffset |-> 0,
                    width   |-> sizes[nodeIds[k]].width ] ],
              0, verticalGap)

(* A packing whose rows are full one node later: a row is closed when it   *)
(* holds more than columnCount nodes.                                      *)
packFixedColumnsOneMore(sorted, sizes, columnCount, verticalGap) ==
  LET perRow == columnCount + 1
      rowCount == (Len(sorted) + perRow - 1) \div perRow
      rowOf(r) == SubSeq(sorted, (r - 1) * perRow + 1,
                         Min(r * perRow, Len(sorted)))
  IN  withOffsets([ r \in 1..rowCount |->
                      [ nodes   |-> rowOf(r),
                        height  |-> MaxOf({ sizes[id].height :
                                              id \in Range(rowOf(r)) }, 0),
                        yOffset |-> 0,
                        width   |-> SumSeq([ k \in DOMAIN rowOf(r) |->
                                               sizes[rowOf(r)[k]].width ]) ] ],
                  0, verticalGap)

packFixedColumns(sorted, sizes, columnCount, verticalGap) ==
  LET rowCount == (Len(sorted) + columnCount - 1) \div columnCount
      rowOf(r) == SubSeq(sorted, (r - 1) * columnCount + 1,
                         Min(r * columnCount, Len(sorted)))
  IN  withOffsets([ r \in 1..rowCount |->
                      [ nodes   |-> rowOf(r),
                        height  |-> MaxOf({ sizes[id].height :
                                              id \in Range(rowOf(r)) }, 0),
                        yOffset |-> 0,
                        width   |-> SumSeq([ k \in DOMAIN rowOf(r) |->
                                               sizes[rowOf(r)[k]].width ]) ] ],
                  0, verticalGap)

(* A first-fit loop that looks at the widths only: a node goes into the    *)
(* first row that has room for it, whatever the heights.                   *)
RECURSIVE firstFitAnyHeight(_, _, _, _, _)
firstFitAnyHeight(todo, sizes, rows, maxRowWidth, horizontalGap) ==
  IF todo = <<>> THEN rows
  ELSE
    LET id   == Head(todo)
        fits(r) ==
          /\ rows[r].width + horizontalGap + sizes[id].width <= maxRowWidth
        open == { r \in DOMAIN rows : fits(r) }
        at   == MinOf(open, 0)
        rows1 ==
          IF open = {}
          THEN Append(rows, [ nodes |-> <<id>>, height |-> sizes[id].height,
                              yOffset |-> 0, width |-> sizes[id].width ])
          ELSE [ r \in DOMAIN rows |->
                   IF r = at
                   THEN [ nodes   |-> Append(rows[at].nodes, id),
                          height  |-> Max(rows[at].height, sizes[id].height),
                          yOffset |-> 0,
                          width   |-> rows[at].width + horizontalGap
                                        + sizes[id].width ]
                   ELSE rows[r] ]
    IN  firstFitAnyHeight(Tail(todo), sizes, rows1, maxRowWidth, horizontalGap)

(* The first-fit loop of packByWidth: a node goes into the first row that  *)
(* has room for it and whose height is at most twice and at least half     *)
(* its own.                                                                *)
RECURSIVE firstFit(_, _, _, _, _)
firstFit(todo, sizes, rows, maxRowWidth, horizontalGap) ==
  IF todo = <<>> THEN rows
  ELSE
    LET id   == Head(todo)
        fits(r) ==
          /\ rows[r].width + horizontalGap + sizes[id].width <= maxRowWidth
          /\ \/ rows[r].height <= 0
             \/ /\ 2 * sizes[id].height >= rows[r].height
                /\ sizes[id].height <= 2 * rows[r].height
        open == { r \in DOMAIN rows : fits(r) }
        at   == MinOf(open, 0)
        rows1 ==
          IF open = {}
          THEN Append(rows, [ nodes |-> <<id>>, height |-> sizes[id].height,
                              yOffset |-> 0, width |-> sizes[id].width ])
          ELSE [ r \in DOMAIN rows |->
                   IF r = at
                   THEN [ nodes   |-> Append(rows[at].nodes, id),
                          height  |-> Max(rows[at].height, sizes[id].height),
                          yOffset |-> 0,
                          width   |-> rows[at].width + horizontalGap
                                        + sizes[id].width ]
                   ELSE rows[r] ]
    IN  firstFit(Tail(todo), sizes, rows1, maxRowWidth, horizontalGap)

(* A packing that differs from the one of the code: every node gets a row *)
(* of its own, whatever the row width allows.                              *)
packOnePerRow(sorted, sizes, maxRowWidth, horizontalGap, verticalGap) ==
  packVertically(sorted, sizes, verticalGap)

packByWidth(sorted, sizes, maxRowWidth, horizontalGap, verticalGap) ==
  withOffsets(StableSort(firstFit(sorted, sizes, <<>>, maxRowWidth, horizontalGap),
                         LAMBDA a, b : a.height > b.height),
              0, verticalGap)

packNodesIntoRows(nodeIds, sizes, config) ==
  LET sorted == StableSort(nodeIds, LAMBDA a, b :
                             sizes[a].height > sizes[b].height)
  IN  IF nodeIds = <<>> THEN <<>>
      ELSE IF config.maxColumns = 1
      THEN packVertically(nodeIds, sizes, config.verticalGap)
      ELSE IF config.maxColumns >= 2
      THEN packFixedColumns(sorted, sizes, config.maxColumns, config.verticalGap)
      ELSE packByWidth(sorted, sizes, config.maxRowWidth, config.horizontalGap,
                       config.verticalGap)

getPackedHeight(rows) ==
  IF rows = <<>> THEN 0 ELSE rows[Len(rows)].yOffset + rows[Len(rows)].height

getPackedWidth(rows) == MaxOf({ rows[r].width : r \in DOMAIN rows } \cup {0}, 0)

(* ---------------------------- layer positions --------------------------- *)

(* A zone as wide as the widest of the nodes that are placed in it: the    *)
(* disconnected nodes in a group and the pinned or locked ones left out.   *)
getMarginZoneWidth(g, state) ==
  LET placed == { id \in state.disconnectedNodes :
                    state.nodeToGroup[id] = 0 /\ ~IsFixed(g.nodes[id]) }
  IN  IF placed = {} THEN 0
      ELSE MaxOf({ g.nodes[id].w : id \in placed }, 0)
             + state.config.disconnectedGap

getDisconnectedZoneWidth(g, state) ==
  IF state.disconnectedNodes = {} THEN 0
  ELSE MaxOf({ g.nodes[id].w : id \in state.disconnectedNodes } \cup {0}, 0)
         + state.config.disconnectedGap

(* The x of every layer: the layers side by side from x on.                *)
RECURSIVE layersFrom(_, _, _)
layersFrom(layers, x, horizontalGap) ==
  IF layers = <<>> THEN <<>>
  ELSE <<[ Head(layers) EXCEPT !.x = x ]>>
         \o layersFrom(Tail(layers), x + Head(layers).maxWidth + horizontalGap,
                       horizontalGap)

assignLayerXPositions(g, state, layers) ==
  layersFrom(layers, state.config.startX + getDisconnectedZoneWidth(g, state),
             state.config.horizontalGap)

(* The y of a packed row: every reserved region the row overlaps, taken    *)
(* in order, moves it below that region.                                   *)
RECURSIVE avoidReserved(_, _, _, _)
avoidReserved(rowY, rowHeight, regions, verticalGap) ==
  IF regions = <<>> THEN rowY
  ELSE avoidReserved(
         IF rowY < Head(regions).bottom /\ rowY + rowHeight > Head(regions).top
         THEN Head(regions).bottom + verticalGap ELSE rowY,
         rowHeight, Tail(regions), verticalGap)

(* assignNodeYPositions for one layer: the position of each of its nodes   *)
(* and the packed width of its standalone nodes.                           *)
layerYPositions(nodes, layer, config) ==
  LET groupNodes == SelectSeq(layer.nodes,
                              LAMBDA id : nodes[id].isGroupRepresentative)
      standaloneNodes == SelectSeq(layer.nodes,
                              LAMBDA id : ~nodes[id].isGroupRepresentative)
      groupY(k) == config.startY
                     + SumSeq([ i \in 1..(k - 1) |->
                                  nodes[groupNodes[i]].height + config.verticalGap ])
      y == groupY(Len(groupNodes) + 1)
      reservedRegions == [ k \in DOMAIN groupNodes |->
                             [ top    |-> groupY(k),
                               bottom |-> groupY(k) + nodes[groupNodes[k]].height ] ]
      sizes == [ id \in Range(standaloneNodes) |->
                   [ width |-> nodes[id].width, height |-> nodes[id].height ] ]
  IN  With(packNodesIntoRows(standaloneNodes, sizes, config), LAMBDA rows :
        LET rowY(r) == avoidReserved(y + rows[r].yOffset, rows[r].height,
                                     reservedRegions, config.verticalGap)
            rowX(r, id) ==
              LET at == CHOOSE i \in DOMAIN rows[r].nodes : rows[r].nodes[i] = id
              IN  layer.x + SumSeq([ i \in 1..(at - 1) |->
                                       nodes[rows[r].nodes[i]].width
                                         + config.horizontalGap ])
            place(r, id) == [ x |-> rowX(r, id), y |-> rowY(r) ]
        IN  [ pos |-> [ id \in Range(layer.nodes) |->
                          IF nodes[id].isGroupRepresentative
                          THEN [ x |-> layer.x,
                                 y |-> groupY(CHOOSE k \in DOMAIN groupNodes :
                                                groupNodes[k] = id) ]
                          ELSE place(CHOOSE r \in DOMAIN rows :
                                       Contains(rows[r].nodes, id), id) ],
              maxWidth |-> IF standaloneNodes # <<>>
                           THEN Max(layer.maxWidth, getPackedWidth(rows))
                           ELSE layer.maxWidth ])

(* assignNodeYPositions followed by recalculateLayerXPositions: the layers *)
(* with their final x and width, and the position of every layout node,    *)
(* which keeps its offset from the x of its layer.                         *)
assignNodePositions(g, state, layers) ==
  With([ k \in DOMAIN layers |->
           layerYPositions(state.nodes, layers[k], state.config) ],
       LAMBDA placed :
  With(layersFrom([ k \in DOMAIN layers |->
                      [ layers[k] EXCEPT !.maxWidth = placed[k].maxWidth ] ],
                  state.config.startX + getDisconnectedZoneWidth(g, state),
                  state.config.horizontalGap),
       LAMBDA moved :
    [ layers |-> moved,
      pos |-> [ id \in state.nodeIds |->
                  LET k == CHOOSE k2 \in DOMAIN layers :
                             Contains(layers[k2].nodes, id)
                  IN  [ x |-> moved[k].x + (placed[k].pos[id].x - layers[k].x),
                        y |-> placed[k].pos[id].y ] ] ]))

(* ---------------------------- compactVertically ------------------------- *)

(* getLayerBounds: the height spanned by the given nodes of one layer.     *)
layerSpan(nodes, pos, ids) ==
  MaxOf({ pos[id].y + nodes[id].height : id \in Range(ids) }, -Infinity)
    - MinOf({ pos[id].y : id \in Range(ids) }, Infinity)

compactVertically(state, layers, pos) ==
  LET nodes == state.nodes
      standalone(k) == SelectSeq(layers[k].nodes,
                         LAMBDA id : ~nodes[id].isGroupRepresentative)
      maxTotalHeight ==
        MaxOf({ layerSpan(nodes, pos, standalone(k)) :
                  k \in { k2 \in DOMAIN layers : standalone(k2) # <<>> } }
                \cup {0}, 0)
      offset(k) == IF layers[k].nodes = <<>> THEN 0
                   ELSE Div(maxTotalHeight
                              - layerSpan(nodes, pos, layers[k].nodes), 2)
      layerAt(id) == CHOOSE k \in DOMAIN layers : Contains(layers[k].nodes, id)
  IN  IF maxTotalHeight = 0 THEN pos
      ELSE [ id \in state.nodeIds |->
               [ pos[id] EXCEPT !.y = @ + offset(layerAt(id)) ] ]

(* ------------------------------ applyPositions -------------------------- *)

(* The graph with the nodes in the domain of at moved to at[id].           *)
moveNodes(g, at) ==
  [ g EXCEPT !.nodes = [ id \in NodeIds(g) |->
      IF id \in DOMAIN at
      THEN [ g.nodes[id] EXCEPT !.x = at[id].x, !.y = at[id].y ]
      ELSE g.nodes[id] ] ]

(* The columns of the layer-based branch of positionGroupContents: every   *)
(* layer that has nodes, tallest node first.                               *)
memberColumns(g, memberIds, edges) ==
  LET layers == assignMemberLayers(memberIds, edges)
      used   == SelectSeq(layers, LAMBDA l : l # <<>>)
  IN  [ k \in DOMAIN used |->
          StableSort(used[k], LAMBDA a, b : g.nodes[a].h > g.nodes[b].h) ]

(* The places of the nodes of the columns, from (startX, startY).          *)
columnPlaces(g, columns, startX, startY, config) ==
  LET width(k) == MaxOf({ g.nodes[id].w : id \in Range(columns[k]) } \cup {0}, 0)
      colX(k)  == startX + SumSeq([ j \in 1..(k - 1) |->
                                      width(j) + config.horizontalGap ])
      nodeY(k, i) == startY + SumSeq([ j \in 1..(i - 1) |->
                       g.nodes[columns[k][j]].h + config.verticalGap ])
      colOf(id) == CHOOSE k \in DOMAIN columns : Contains(columns[k], id)
      ids == UNION { Range(columns[k]) : k \in DOMAIN columns }
  IN  [ at |-> [ id \in ids |->
                   LET k == colOf(id)
                       i == CHOOSE i2 \in DOMAIN columns[k] : columns[k][i2] = id
                   IN  [ x |-> colX(k), y |-> nodeY(k, i) ] ],
        finalY |-> MaxOf({ nodeY(k, Len(columns[k]) + 1) - config.verticalGap :
                             k \in DOMAIN columns } \cup { startY }, 0),
        endX   |-> colX(Len(columns) + 1) - config.horizontalGap ]

(* The places of the nodes of packed rows, from (startX, startY).          *)
rowPlaces(g, rows, startX, startY, config) ==
  LET rowOf(id) == CHOOSE r \in DOMAIN rows : Contains(rows[r].nodes, id)
      ids == UNION { Range(rows[r].nodes) : r \in DOMAIN rows }
      nodeX(r, i) == startX + SumSeq([ j \in 1..(i - 1) |->
                       g.nodes[rows[r].nodes[j]].w + config.horizontalGap ])
      rowY(r) == startY + SumSeq([ j \in 1..(r - 1) |->
                                    rows[j].height + config.verticalGap ])
  IN  [ at |-> [ id \in ids |->
                   LET r == rowOf(id)
                       i == CHOOSE i2 \in DOMAIN rows[r].nodes :
                              rows[r].nodes[i2] = id
                   IN  [ x |-> nodeX(r, i), y |-> rowY(r) ] ],
        finalY |-> rowY(Len(rows) + 1) - config.verticalGap ]

nodeSizes(g, ids) ==
  [ id \in Range(ids) |-> [ width |-> g.nodes[id].w, height |-> g.nodes[id].h ] ]

(* positionGroupContents: the graph with the contents of the group laid    *)
(* out from (startX, startY), and the y where the contents end.  The       *)
(* layer-based branch places every member of the group, the packing        *)
(* branch the members that are neither pinned nor locked.                  *)
RECURSIVE positionGroupContents(_, _, _, _, _, _)
RECURSIVE positionChildGroups(_, _, _, _, _, _)
positionGroupContents(g, groups, gi, startX, startY, config) ==
  LET memberIds == groups[gi].memberIds
      members == SelectSeq(memberIds, LAMBDA id : ~IsFixed(g.nodes[id]))
      edges   == getInternalEdges(g, memberIds)
      columns == columnPlaces(g, memberColumns(g, memberIds, edges),
                              startX, startY, config)
      sorted  == StableSort(members, LAMBDA a, b : g.nodes[a].h > g.nodes[b].h)
      rows    == rowPlaces(g, packNodesIntoRows(sorted, nodeSizes(g, sorted), config),
                           startX, startY, config)
      placed  == IF members = <<>> THEN [ g |-> g, finalY |-> startY ]
                 ELSE IF edges # <<>>
                 THEN [ g |-> moveNodes(g, columns.at), finalY |-> columns.finalY ]
                 ELSE [ g |-> moveNodes(g, rows.at), finalY |-> rows.finalY ]
  IN  IF members = <<>> /\ groups[gi].childGroups = <<>>
      THEN [ g |-> g, finalY |-> startY ]
      ELSE positionChildGroups(placed.g, groups, groups[gi].childGroups,
                               startX, placed.finalY, config)

positionChildGroups(g, groups, children, startX, finalY, config) ==
  IF children = <<>> THEN [ g |-> g, finalY |-> finalY ]
  ELSE
    LET child == Head(children)
        childStartY == finalY + config.verticalGap
        inner == positionGroupContents(g, groups, child, startX,
                                       childStartY + GROUP_TITLE_HEIGHT, config)
        moved == [ inner.g EXCEPT
                     !.groups[child].x = startX - config.groupPadding,
                     !.groups[child].y = childStartY - config.groupPadding ]
    IN  positionChildGroups(moved, groups, Tail(children), startX,
                            inner.finalY + config.groupPadding, config)

(* placeDisconnectedNodes: the disconnected nodes outside every group,     *)
(* stacked from (startX, startY); a pinned or locked one keeps its place   *)
(* in the stack and is not moved.                                          *)
placeDisconnectedNodes(g, state) ==
  LET config == state.config
      standaloneDisconnected ==
        SelectSeq([ k \in NodeIds(g) |-> k ], LAMBDA id :
          id \in state.disconnectedNodes /\ state.nodeToGroup[id] = 0)
      rows == packNodesIntoRows(standaloneDisconnected,
                                nodeSizes(g, standaloneDisconnected),
                                [ config EXCEPT !.maxColumns = 1 ])
      rowOf(id) == CHOOSE r \in DOMAIN rows : Contains(rows[r].nodes, id)
      free == { id \in Range(standaloneDisconnected) : ~IsFixed(g.nodes[id]) }
  IN  moveNodes(g, [ id \in free |->
                       [ x |-> config.startX,
                         y |-> config.startY + rows[rowOf(id)].yOffset ] ])

(* restoreReroutePositions: the reroutes of every chain that has targets,  *)
(* spread evenly between the right side of the source and the mean of the  *)
(* targets.  positions and sizes map a node id to [x, y] and to [width,    *)
(* height].                                                                *)
RECURSIVE restoreReroutePositions(_, _, _)
restoreReroutePositions(chains, positions, sizes) ==
  IF chains = <<>> THEN positions
  ELSE
    LET chain  == Head(chains)
        count  == Len(chain.nodes)
        valid  == Len(chain.targets)
        avgTargetX == Div(SumSeq([ k \in DOMAIN chain.targets |->
                            positions[chain.targets[k]].x ]), valid)
        avgTargetY == Div(SumSeq([ k \in DOMAIN chain.targets |->
                            positions[chain.targets[k]].y ]), valid)
        startX == positions[chain.sourceNode].x + sizes[chain.sourceNode].width
        startY == positions[chain.sourceNode].y
                    + Div(sizes[chain.sourceNode].height, 2)
        at(i)  == [ x |-> startX + Div((avgTargetX - startX) * i, count + 1)
                            - Div(sizes[chain.nodes[i]].width, 2),
                    y |-> startY + Div((avgTargetY - startY) * i, count + 1)
                            - Div(sizes[chain.nodes[i]].height, 2) ]
        moved  == [ id \in DOMAIN positions |->
                      IF Contains(chain.nodes, id)
                      THEN at(CHOOSE i \in DOMAIN chain.nodes : chain.nodes[i] = id)
                      ELSE positions[id] ]
    IN  restoreReroutePositions(Tail(chains),
          IF count = 0 \/ valid = 0 THEN positions ELSE moved, sizes)

(* The top-level groups that have a representative, one after the other.   *)
RECURSIVE positionTopLevelGroups(_, _, _, _)
positionTopLevelGroups(g, state, pos, todo) ==
  IF todo = <<>> THEN g
  ELSE
    LET gi    == Head(todo)
        repId == state.groupRepresentatives[gi]
        startX == pos[repId].x + state.config.groupPadding
        startY == pos[repId].y + state.config.groupPadding + GROUP_TITLE_HEIGHT
    IN  positionTopLevelGroups(
          IF repId = 0 THEN g
          ELSE positionGroupContents(g, state.groups, gi, startX, startY,
                                     state.config).g,
          state, pos, Tail(todo))

(* applyPositions: pos is the position the layout gave every layout node.  *)
applyPositions(g, state, pos) ==
  LET standalone == { id \in state.nodeIds :
                        /\ ~state.nodes[id].isGroupRepresentative
                        /\ ~IsFixed(g.nodes[id]) }
      topLevelGroups == SelectSeq([ k \in GroupIds(g) |-> k ],
                          LAMBDA gi : state.groups[gi].parentGroup = 0)
  IN  With(placeDisconnectedNodes(
             positionTopLevelGroups(
               moveNodes(g, [ id \in standalone |-> pos[id] ]),
               state, pos, topLevelGroups),
             state),
           LAMBDA g3 :
        LET positions == [ id \in NodeIds(g) |->
                            IF id \in state.nodeIds THEN pos[id]
                            ELSE [ x |-> g3.nodes[id].x, y |-> g3.nodes[id].y ] ]
            sizes == [ id \in NodeIds(g) |->
                        IF id \in state.nodeIds
                        THEN [ width  |-> state.nodes[id].width,
                               height |-> state.nodes[id].height ]
                        ELSE [ width  |-> g3.nodes[id].w,
                               height |-> g3.nodes[id].h ] ]
        IN  IF state.rerouteChains = <<>> THEN g3
            ELSE With(restoreReroutePositions(state.rerouteChains, positions,
                                              sizes),
                      LAMBDA restored :
                   moveNodes(g3, [ id \in getRerouteNodeIds(state.rerouteChains)
                                     |-> restored[id] ])))

(* ---------------------------- resizeGroupsToFit ------------------------- *)

(* The rectangle around the given nodes and groups of the graph.           *)
boundsOf(g, nodeIds, groupIds) ==
  [ minX |-> MinOf({ g.nodes[id].x : id \in nodeIds }
                     \cup { g.groups[c].x : c \in groupIds }, Infinity),
    minY |-> MinOf({ g.nodes[id].y : id \in nodeIds }
                     \cup { g.groups[c].y : c \in groupIds }, Infinity),
    maxX |-> MaxOf({ g.nodes[id].x + g.nodes[id].w : id \in nodeIds }
                     \cup { g.groups[c].x + g.groups[c].w : c \in groupIds },
                   -Infinity),
    maxY |-> MaxOf({ g.nodes[id].y + g.nodes[id].h : id \in nodeIds }
                     \cup { g.groups[c].y + g.groups[c].h : c \in groupIds },
                   -Infinity) ]

(* A resize that differs from the one of the code: no group is skipped.    *)
resizesEveryGroup(lg, b) == FALSE

(* The groups resizeGroupsToFit leaves as they are: those without member   *)
(* and child group, and those whose bounds are still the start values.     *)
skipsGroup(lg, b) ==
  \/ lg.memberIds = <<>> /\ lg.childGroups = <<>>
  \/ b.minX = Infinity

updateGroupBounds(g, gi, x, y, width, height) ==
  [ g EXCEPT !.groups[gi].x = x, !.groups[gi].y = y,
             !.groups[gi].w = width, !.groups[gi].h = height ]

(* resizeGroupsToFit, deepest groups first: every group that has members   *)
(* or child groups becomes the rectangle around them plus padding and      *)
(* title bar.  acc is [g, count].                                          *)
RECURSIVE resizeGroups(_, _, _)
resizeGroups(acc, state, order) ==
  IF order = <<>> THEN acc
  ELSE
    LET gi == Head(order)
        lg == state.groups[gi]
        b  == boundsOf(acc.g, Range(lg.memberIds), Range(lg.childGroups))
        padding == state.config.groupPadding
        fitted == updateGroupBounds(acc.g, gi,
                    b.minX - padding,
                    b.minY - padding - GROUP_TITLE_HEIGHT,
                    b.maxX - b.minX + padding * 2,
                    b.maxY - b.minY + padding * 2 + GROUP_TITLE_HEIGHT)
    IN  resizeGroups(
          IF skipsGroup(lg, b) THEN acc
          ELSE [ g |-> fitted, count |-> acc.count + 1 ],
          state, Tail(order))

resizeGroupsToFit(g, state) ==
  resizeGroups([ g |-> g, count |-> 0 ], state,
    StableSort([ k \in GroupIds(g) |-> k ],
               LAMBDA a, b : state.groups[a].depth > state.groups[b].depth))

(* --------------------------- resolveAllOverlaps ------------------------- *)

(* An entity is [type, ref, priority, x, y, width, height]: ref is the id  *)
(* of the group or node.                                                   *)
collectEntities(g, state) ==
  LET topLevel == SelectSeq([ k \in GroupIds(g) |-> k ],
                    LAMBDA gi : state.groups[gi].parentGroup = 0)
      standalone == SelectSeq([ k \in NodeIds(g) |-> k ], LAMBDA id :
                      state.nodeToGroup[id] = 0 /\ ~IsFixed(g.nodes[id]))
  IN  [ k \in DOMAIN topLevel |->
          [ type |-> "group", ref |-> topLevel[k], priority |-> 100,
            x |-> g.groups[topLevel[k]].x, y |-> g.groups[topLevel[k]].y,
            width |-> g.groups[topLevel[k]].w,
            height |-> g.groups[topLevel[k]].h ] ]
      \o
      [ k \in DOMAIN standalone |->
          [ type |-> "node", ref |-> standalone[k],
            priority |-> IF standalone[k] \in state.disconnectedNodes
                         THEN 10 ELSE 50,
            x |-> g.nodes[standalone[k]].x, y |-> g.nodes[standalone[k]].y,
            width |-> g.nodes[standalone[k]].w,
            height |-> g.nodes[standalone[k]].h ] ]

shiftNodes(g, ids, dx, dy) ==
  [ g EXCEPT !.nodes = [ id \in NodeIds(g) |->
      IF id \in ids
      THEN [ g.nodes[id] EXCEPT !.x = @ + dx, !.y = @ + dy ]
      ELSE g.nodes[id] ] ]

(* shiftChildGroups: every child group, its members and, through           *)
(* shiftGroupContentsRecursively, everything below it.                     *)
RECURSIVE shiftChildGroups(_, _, _, _, _)
shiftChildGroups(g, groups, children, dx, dy) ==
  IF children = <<>> THEN g
  ELSE
    LET child == Head(children)
        moved == [ g EXCEPT !.groups[child].x = @ + dx,
                            !.groups[child].y = @ + dy ]
        members == shiftNodes(moved, Range(groups[child].memberIds), dx, dy)
        below == shiftChildGroups(members, groups, groups[child].childGroups,
                                  dx, dy)
    IN  shiftChildGroups(below, groups, Tail(children), dx, dy)

(* applyEntityShift: a group moves with all its member nodes, pinned and   *)
(* locked ones too, and with its child groups.                             *)
applyEntityShift(g, state, entity, dx, dy) ==
  IF entity.type = "group"
  THEN LET gi == entity.ref
           moved == [ g EXCEPT !.groups[gi].x = @ + dx, !.groups[gi].y = @ + dy ]
           members == shiftNodes(moved, Range(state.groups[gi].memberIds), dx, dy)
       IN  shiftChildGroups(members, state.groups,
                            state.groups[gi].childGroups, dx, dy)
  ELSE shiftNodes(g, {entity.ref}, dx, dy)

(* A scanline step that sets entity j to the required position whenever    *)
(* the two overlap across the axis, also when entity j is already beyond.  *)
scanlinePairToRequired(acc, state, axis, i, j) ==
  LET config == state.config
      anchor == acc.entities[i]
      pushed == acc.entities[j]
      yOverlap == /\ anchor.y < pushed.y + pushed.height + config.verticalGap
                  /\ pushed.y < anchor.y + anchor.height + config.verticalGap
      xOverlap == /\ anchor.x < pushed.x + pushed.width + config.horizontalGap
                  /\ pushed.x < anchor.x + anchor.width + config.horizontalGap
      requiredX == anchor.x + anchor.width + config.horizontalGap
      requiredY == anchor.y + anchor.height + config.verticalGap
      pushX == [ entities |-> [ k \in DOMAIN acc.entities |->
                   IF k = j THEN [ pushed EXCEPT !.x = requiredX ]
                   ELSE acc.entities[k] ],
                 g |-> applyEntityShift(acc.g, state, pushed,
                                        requiredX - pushed.x, 0),
                 changed |-> TRUE ]
      pushY == [ entities |-> [ k \in DOMAIN acc.entities |->
                   IF k = j THEN [ pushed EXCEPT !.y = requiredY ]
                   ELSE acc.entities[k] ],
                 g |-> applyEntityShift(acc.g, state, pushed,
                                        0, requiredY - pushed.y),
                 changed |-> TRUE ]
  IN  IF axis = "x"
      THEN (IF yOverlap THEN pushX ELSE acc)
      ELSE (IF xOverlap THEN pushY ELSE acc)

(* The body of the inner loop of a scanline pass for the pair (i, j) of    *)
(* the sorted entities: when the two overlap across the axis and entity j  *)
(* starts before the end of entity i plus the gap, entity j is pushed      *)
(* along the axis.  acc is [entities, g, changed].                         *)
scanlinePair(acc, state, axis, i, j) ==
  LET config == state.config
      anchor == acc.entities[i]
      pushed == acc.entities[j]
      yOverlap == /\ anchor.y < pushed.y + pushed.height + config.verticalGap
                  /\ pushed.y < anchor.y + anchor.height + config.verticalGap
      xOverlap == /\ anchor.x < pushed.x + pushed.width + config.horizontalGap
                  /\ pushed.x < anchor.x + anchor.width + config.horizontalGap
      requiredX == anchor.x + anchor.width + config.horizontalGap
      requiredY == anchor.y + anchor.height + config.verticalGap
      pushX == [ entities |-> [ k \in DOMAIN acc.entities |->
                   IF k = j THEN [ pushed EXCEPT !.x = requiredX ]
                   ELSE acc.entities[k] ],
                 g |-> applyEntityShift(acc.g, state, pushed,
                                        requiredX - pushed.x, 0),
                 changed |-> TRUE ]
      pushY == [ entities |-> [ k \in DOMAIN acc.entities |->
                   IF k = j THEN [ pushed EXCEPT !.y = requiredY ]
                   ELSE acc.entities[k] ],
                 g |-> applyEntityShift(acc.g, state, pushed,
                                        0, requiredY - pushed.y),
                 changed |-> TRUE ]
  IN  IF axis = "x"
      THEN (IF yOverlap /\ pushed.x < requiredX THEN pushX ELSE acc)
      ELSE (IF xOverlap /\ pushed.y < requiredY THEN pushY ELSE acc)

(* One sweep of a scanline pass over the sorted entities, pair (i, j)     *)
(* after pair.  acc is [entities, g, changed].                             *)
RECURSIVE scanlineSweep(_, _, _, _, _)
scanlineSweep(acc, state, axis, i, j) ==
  LET n == Len(acc.entities)
  IN  IF i > n THEN acc
      ELSE IF j > n THEN scanlineSweep(acc, state, axis, i + 1, i + 2)
      ELSE scanlineSweep(scanlinePair(acc, state, axis, i, j),
                         state, axis, i, j + 1)

(* The sweeps of one pass: sort by position along the axis, then by        *)
(* priority, sweep, and again while a sweep pushed something, at most      *)
(* twice the number of entities times.  acc is [entities, g, changed].     *)
RECURSIVE scanlineResolve(_, _, _, _)
scanlineResolve(acc, state, axis, iterations) ==
  LET sorted == StableSort(acc.entities, LAMBDA a, b :
                  \/ a[axis] < b[axis]
                  \/ (a[axis] = b[axis] /\ a.priority > b.priority))
      swept  == scanlineSweep([ entities |-> sorted, g |-> acc.g,
                                changed |-> FALSE ], state, axis, 1, 2)
  IN  IF iterations >= Len(acc.entities) * 2 THEN acc
      ELSE IF swept.changed
      THEN scanlineResolve(swept, state, axis, iterations + 1)
      ELSE swept

scanlineResolveX(entities, g, state) ==
  scanlineResolve([ entities |-> entities, g |-> g, changed |-> TRUE ],
                  state, "x", 0)

scanlineResolveY(entities, g, state) ==
  scanlineResolve([ entities |-> entities, g |-> g, changed |-> TRUE ],
                  state, "y", 0)

resolveAllOverlaps(g, state) ==
  LET entities == collectEntities(g, state)
      passX == scanlineResolveX(entities, g, state)
      passY == scanlineResolveY(passX.entities, passX.g, state)
  IN  IF Len(entities) < 2 THEN g ELSE passY.g

(* ------------------------------- layoutGraph ---------------------------- *)

(* The phases 1 to 7 of layoutGraph on a graph with nodes: the layout      *)
(* state, the layers with the positions of the layout nodes, and the graph *)
(* with the count of resized groups after resizeGroupsToFit.               *)
layoutPhases(g, config) ==
  With(buildLayoutGraph(g, config), LAMBDA state :
  With(assignLayers(state), LAMBDA layered :
  With(minimizeCrossings(state.nodes, layered.layer, layered.layers, config),
       LAMBDA orders :
  With(assignNodePositions(g, state,
         assignLayerXPositions(g, state,
           [ k \in DOMAIN orders |->
               [ layered.layers[k] EXCEPT !.nodes = orders[k] ] ])),
       LAMBDA placed :
    [ state   |-> state,
      placed  |-> placed,
      resized |-> resizeGroupsToFit(
                    applyPositions(g, state,
                      compactVertically(state, placed.layers, placed.pos)),
                    state) ]))))

(* layoutGraph: the graph after the call, the result the call returns and  *)
(* the number of redraws it asked for.                                     *)
layoutGraph(g, config) ==
  IF g.nodes = <<>>
  THEN [ g |-> g, redraws |-> 0,
         result |-> [ nodeCount |-> 0, layerCount |-> 0, groupCount |-> 0 ] ]
  ELSE
    With(layoutPhases(g, config), LAMBDA laid :
      [ g |-> resolveAllOverlaps(laid.resized.g, laid.state), redraws |-> 1,
        result |-> [ nodeCount |-> Cardinality(laid.state.nodeIds)
                         + Cardinality(laid.state.disconnectedNodes)
                         + SumSeq([ c \in DOMAIN laid.state.rerouteChains |->
                                      Len(laid.state.rerouteChains[c].nodes) ]),
                     layerCount |-> Len(laid.placed.layers),
                     groupCount |-> laid.resized.count ] ])

(* ------------------------------ title tokens ---------------------------- *)

(* A title is a sequence of characters, each a string of length one.       *)
LowerCase == << "a", "b", "c", "d", "e", "f", "g", "h", "i", "j", "k", "l", "m",
                "n", "o", "p", "q", "r", "s", "t", "u", "v", "w", "x", "y", "z" >>

UpperCase == << "A", "B", "C", "D", "E", "F", "G", "H", "I", "J", "K", "L", "M",
                "N", "O", "P", "Q", "R", "S", "T", "U", "V", "W", "X", "Y", "Z" >>

Digits19 == << "1", "2", "3", "4", "5", "6", "7", "8", "9" >>

toUpperCase(title) ==
  [ i \in DOMAIN title |->
      IF Contains(LowerCase, title[i])
      THEN UpperCase[CHOOSE k \in DOMAIN LowerCase : LowerCase[k] = title[i]]
      ELSE title[i] ]

(* The positions of the text where the pattern occurs.                     *)
occurrences(text, pattern) ==
  { i \in 1..(Len(text) - Len(pattern) + 1) :
      SubSeq(text, i, i + Len(pattern) - 1) = pattern }

includes(text, pattern) == occurrences(text, pattern) # {}

(* The digit of the first match of "[", a digit from 1 to 9, the word and  *)
(* "]" in the text; 0 when there is no match.                              *)
matchCount(text, word) ==
  LET at == { i \in 1..(Len(text) - Len(word) - 2) :
                /\ text[i] = "["
                /\ Contains(Digits19, text[i + 1])
                /\ SubSeq(text, i + 2, i + Len(word) + 2) = word \o <<"]">> }
      first == MinOf(at, 0)
  IN  IF at = {} THEN 0
      ELSE CHOOSE d \in DOMAIN Digits19 : Digits19[d] = text[first + 1]

(* A parser that differs from the one of the code: it looks for [VERTICAL] *)
(* before [HORIZONTAL].  The precedence property must tell them apart.     *)
parseVerticalFirst(title) ==
  LET upper == toUpperCase(title)
      rows  == matchCount(upper, << "R", "O", "W" >>)
      cols  == matchCount(upper, << "C", "O", "L" >>)
  IN  IF includes(upper, << "[", "V", "E", "R", "T", "I", "C", "A", "L", "]" >>)
      THEN [ type |-> "vertical", count |-> 0 ]
      ELSE IF includes(upper, << "[", "H", "O", "R", "I", "Z", "O", "N", "T", "A", "L", "]" >>)
      THEN [ type |-> "horizontal", count |-> 0 ]
      ELSE IF rows > 0
      THEN (IF rows = 1 THEN [ type |-> "horizontal", count |-> 0 ]
            ELSE [ type |-> "rows", count |-> rows ])
      ELSE IF cols > 0
      THEN (IF cols = 1 THEN [ type |-> "vertical", count |-> 0 ]
            ELSE [ type |-> "columns", count |-> cols ])
      ELSE [ type |-> "default", count |-> 0 ]

parseLayoutToken(title) ==
  LET upper == toUpperCase(title)
      rows  == matchCount(upper, << "R", "O", "W" >>)
      cols  == matchCount(upper, << "C", "O", "L" >>)
  IN  IF includes(upper, << "[", "H", "O", "R", "I", "Z", "O", "N", "T", "A", "L", "]" >>)
      THEN [ type |-> "horizontal", count |-> 0 ]
      ELSE IF includes(upper, << "[", "V", "E", "R", "T", "I", "C", "A", "L", "]" >>)
      THEN [ type |-> "vertical", count |-> 0 ]
      ELSE IF rows > 0
      THEN (IF rows = 1 THEN [ type |-> "horizontal", count |-> 0 ]
            ELSE [ type |-> "rows", count |-> rows ])
      ELSE IF cols > 0
      THEN (IF cols = 1 THEN [ type |-> "vertical", count |-> 0 ]
            ELSE [ type |-> "columns", count |-> cols ])
      ELSE [ type |-> "default", count |-> 0 ]

(* An item to arrange is [id, width, height, originalX, originalY]; the    *)
(* result is a sequence of [id, x, y].                                     *)
sortByOriginalPosition(items) ==
  StableSort(items, LAMBDA a, b :
    \/ a.originalX < b.originalX
    \/ (a.originalX = b.originalX /\ a.originalY < b.originalY))

(* The items one after the other along a line from (startX, startY).       *)
RECURSIVE inLine(_, _, _, _, _)
inLine(items, x, y, gap, horizontal) ==
  IF items = <<>> THEN <<>>
  ELSE <<[ id |-> Head(items).id, x |-> x, y |-> y ]>>
         \o (IF horizontal
             THEN inLine(Tail(items), x + Head(items).width + gap, y, gap, TRUE)
             ELSE inLine(Tail(items), x, y + Head(items).height + gap, gap, FALSE))

arrangeHorizontal(items, startX, startY, gap) ==
  inLine(sortByOriginalPosition(items), startX, startY, gap, TRUE)

arrangeVertical(items, startX, startY, gap) ==
  inLine(StableSort(items, LAMBDA a, b :
           \/ a.originalY < b.originalY
           \/ (a.originalY = b.originalY /\ a.originalX < b.originalX)),
         startX, startY, gap, FALSE)

(* A dealing that differs from the one of the code: the items fill one     *)
(* line after the other.  The round-robin property must tell them apart.   *)
roundRobinInBlocks(sorted, count) ==
  LET size == (Len(sorted) + count - 1) \div count
  IN  SelectSeq([ r \in 1..count |->
                    SubSeq(sorted, (r - 1) * size + 1,
                           Min(r * size, Len(sorted))) ],
                LAMBDA line : line # <<>>)

(* The items dealt round-robin into count lines; the empty lines dropped.  *)
roundRobin(sorted, count) ==
  SelectSeq([ r \in 1..count |->
                [ k \in 1..((Len(sorted) - r + count) \div count) |->
                    sorted[(k - 1) * count + r] ] ],
            LAMBDA line : line # <<>>)

RECURSIVE arrangeLines(_, _, _, _, _, _)
arrangeLines(lines, x, y, horizontalGap, verticalGap, asRows) ==
  IF lines = <<>> THEN <<>>
  ELSE
    LET line == Head(lines)
        rowMaxHeight == MaxOf({ line[i].height : i \in DOMAIN line } \cup {0}, 0)
        colMaxWidth  == MaxOf({ line[i].width : i \in DOMAIN line } \cup {0}, 0)
    IN  IF asRows
        THEN inLine(line, x, y, horizontalGap, TRUE)
               \o arrangeLines(Tail(lines), x, y + rowMaxHeight + verticalGap,
                               horizontalGap, verticalGap, TRUE)
        ELSE inLine(line, x, y, verticalGap, FALSE)
               \o arrangeLines(Tail(lines), x + colMaxWidth + horizontalGap, y,
                               horizontalGap, verticalGap, FALSE)

arrangeRows(items, rowCount, startX, startY, horizontalGap, verticalGap) ==
  arrangeLines(roundRobin(sortByOriginalPosition(items), rowCount),
               startX, startY, horizontalGap, verticalGap, TRUE)

arrangeColumns(items, colCount, startX, startY, horizontalGap, verticalGap) ==
  arrangeLines(roundRobin(sortByOriginalPosition(items), colCount),
               startX, startY, horizontalGap, verticalGap, FALSE)

arrangeByMode(items, mode, startX, startY, config) ==
  IF items = <<>> THEN <<>>
  ELSE IF mode.type = "horizontal"
  THEN arrangeHorizontal(items, startX, startY, config.horizontalGap)
  ELSE IF mode.type = "vertical"
  THEN arrangeVertical(items, startX, startY, config.verticalGap)
  ELSE IF mode.type = "rows"
  THEN arrangeRows(items, mode.count, startX, startY,
                   config.horizontalGap, config.verticalGap)
  ELSE IF mode.type = "columns"
  THEN arrangeColumns(items, mode.count, startX, startY,
                      config.horizontalGap, config.verticalGap)
  ELSE <<>>

(* ---------------------------- selected groups --------------------------- *)

(* collectNestedGroups: the groups of the list allGroups that the parent   *)
(* contains, directly or through another one, in the order the breadth-    *)
(* first walk finds them.  The walk compares rectangles only, so a group   *)
(* with the bounds of the parent is nested in it, and the parent in it.    *)
RECURSIVE collectNested(_, _, _, _)
collectNested(g, allGroups, queue, nested) ==
  IF queue = <<>> THEN nested
  ELSE
    LET current == Head(queue)
        found == SelectSeq(allGroups, LAMBDA gi :
                   /\ gi # current
                   /\ groupContainsGroup(g.groups[current], g.groups[gi])
                   /\ ~Contains(nested, gi))
    IN  collectNested(g, allGroups, Tail(queue) \o found, nested \o found)

collectNestedGroups(g, parent, allGroups) ==
  collectNested(g, allGroups, <<parent>>, <<>>)

(* collectDirectMembers: the nodes whose origin is in the content area of  *)
(* the group and in the content area of none of the nested groups.         *)
collectDirectMembers(g, gi, nestedGroups) ==
  SelectSeq([ k \in NodeIds(g) |-> k ], LAMBDA id :
    /\ nodeInsideGroup(g.nodes[id], g.groups[gi])
    /\ \A k \in DOMAIN nestedGroups :
         ~nodeInsideGroup(g.nodes[id], g.groups[nestedGroups[k]]))

(* resizeGroupToFitMembers: the rectangle around the member nodes only.    *)
resizeGroupToFitMembers(g, gi, memberIds, config) ==
  LET b == boundsOf(g, Range(memberIds), {})
  IN  IF memberIds = <<>> \/ b.minX = Infinity THEN g
      ELSE updateGroupBounds(g, gi,
             b.minX - config.groupPadding,
             b.minY - config.groupPadding - GROUP_TITLE_HEIGHT,
             b.maxX - b.minX + config.groupPadding * 2,
             b.maxY - b.minY + config.groupPadding * 2 + GROUP_TITLE_HEIGHT)

(* translateGroupWithMembers: the group, the tracked member nodes, pinned  *)
(* and locked ones too, and every group of the list that the group         *)
(* contains once it has moved.                                             *)
translateGroupWithMembers(g, gi, deltaX, deltaY, memberIds, allGroups) ==
  LET moved == [ g.groups[gi] EXCEPT !.x = @ + deltaX, !.y = @ + deltaY ]
      inside == { k \in Range(allGroups) :
                    k # gi /\ groupContainsGroup(moved, g.groups[k]) }
      shifted == shiftNodes(g, Range(memberIds), deltaX, deltaY)
  IN  [ shifted EXCEPT !.groups = [ k \in GroupIds(g) |->
          IF k = gi \/ k \in inside
          THEN [ g.groups[k] EXCEPT !.x = @ + deltaX, !.y = @ + deltaY ]
          ELSE g.groups[k] ] ]

(* The nested groups, those first that most other nested groups contain.   *)
sortDeepestFirst(g, nestedGroups) ==
  LET depth(a) == Cardinality({ k \in DOMAIN nestedGroups :
                    /\ nestedGroups[k] # a
                    /\ groupContainsGroup(g.groups[nestedGroups[k]], g.groups[a]) })
  IN  StableSort(nestedGroups, LAMBDA a, b : depth(a) > depth(b))

(* The nested groups that no other nested group contains.                  *)
directOf(g, candidates, nestedGroups) ==
  SelectSeq(candidates, LAMBDA a :
    \A k \in DOMAIN nestedGroups :
      nestedGroups[k] = a
        \/ ~groupContainsGroup(g.groups[nestedGroups[k]], g.groups[a]))

(* The bounds of the positioned content: none is TRUE while nothing has    *)
(* been positioned.                                                        *)
noBounds == [ none |-> TRUE, minX |-> 0, minY |-> 0, maxX |-> 0, maxY |-> 0 ]

extend(b, x, y, w, h) ==
  IF b.none
  THEN [ none |-> FALSE, minX |-> x, minY |-> y, maxX |-> x + w, maxY |-> y + h ]
  ELSE [ none |-> FALSE, minX |-> Min(b.minX, x), minY |-> Min(b.minY, y),
         maxX |-> Max(b.maxX, x + w), maxY |-> Max(b.maxY, y + h) ]

RECURSIVE extendAll(_, _, _)
extendAll(b, g, ids) ==
  IF ids = <<>> THEN b
  ELSE extendAll(extend(b, g.nodes[Head(ids)].x, g.nodes[Head(ids)].y,
                        g.nodes[Head(ids)].w, g.nodes[Head(ids)].h),
                 g, Tail(ids))

(* layoutGroupContents threads a context c = [g, processed, b,             *)
(* contentEndY, tracked]: the graph, the groups processed so far, the      *)
(* bounds of the positioned content, the y where the content ends and,     *)
(* per nested group, the member nodes recorded for its translation.        *)

(* The default layout of the members: layer by layer when they have        *)
(* internal edges (all members are placed then), else a vertical stack of  *)
(* the members that are neither pinned nor locked.                         *)
defaultMembers(c, memberIds, members, startX, startY, config) ==
  LET g == c.g
      edges   == getInternalEdges(g, memberIds)
      columns == columnPlaces(g, memberColumns(g, memberIds, edges),
                              startX, startY, config)
      sorted  == StableSort(members, LAMBDA a, b : g.nodes[a].h > g.nodes[b].h)
      rows    == packNodesIntoRows(sorted, nodeSizes(g, sorted),
                                   [ config EXCEPT !.maxColumns = 1 ])
      rowOf(id) == CHOOSE r \in DOMAIN rows : Contains(rows[r].nodes, id)
      stacked == moveNodes(g, [ id \in Range(members) |->
                   [ x |-> startX, y |-> startY + rows[rowOf(id)].yOffset ] ])
      layered == moveNodes(g, columns.at)
  IN  IF edges # <<>>
      THEN [ c EXCEPT !.g = layered,
                      !.b = extendAll(c.b, layered, memberIds),
                      !.contentEndY = Max(c.contentEndY, columns.finalY) ]
      ELSE [ c EXCEPT !.g = stacked,
                      !.b = extendAll(c.b, stacked, members),
                      !.contentEndY =
                         MaxOf({ startY + rows[r].yOffset + rows[r].height :
                                   r \in DOMAIN rows } \cup { c.contentEndY }, 0) ]

(* The arranged items of a token layout put in place one after the other:  *)
(* a negative id is a nested group, which moves with its tracked members.  *)
RECURSIVE tokenApply(_, _, _)
tokenApply(c, arranged, nestedGroups) ==
  IF arranged = <<>> THEN c
  ELSE
    LET pos == Head(arranged)
        gi  == 0 - pos.id
        moved == translateGroupWithMembers(c.g, gi,
                   pos.x - c.g.groups[gi].x, pos.y - c.g.groups[gi].y,
                   c.tracked[gi], nestedGroups)
        asGroup == [ c EXCEPT
                       !.g = moved,
                       !.b = extend(c.b, pos.x, pos.y,
                                    moved.groups[gi].w, moved.groups[gi].h),
                       !.contentEndY = Max(c.contentEndY,
                                           pos.y + moved.groups[gi].h) ]
        placed == moveNodes(c.g, [ id \in {pos.id} |-> [ x |-> pos.x, y |-> pos.y ] ])
        asNode == [ c EXCEPT
                      !.g = placed,
                      !.b = extendAll(c.b, placed, <<pos.id>>),
                      !.contentEndY = Max(c.contentEndY,
                                          pos.y + placed.nodes[pos.id].h) ]
    IN  tokenApply(IF pos.id < 0 THEN asGroup ELSE asNode,
                   Tail(arranged), nestedGroups)

RECURSIVE layoutGroupContents(_, _, _, _, _, _)
RECURSIVE tokenNested(_, _, _, _)
RECURSIVE nestedPass(_, _, _, _, _, _)

(* The first loop of the token layout: every nested group that is not      *)
(* processed yet is laid out and fitted to its own members, deepest first. *)
tokenNested(c, todo, sortedNested, config) ==
  IF todo = <<>> THEN c
  ELSE IF Head(todo) \in c.processed
  THEN tokenNested(c, Tail(todo), sortedNested, config)
  ELSE
    LET nested == Head(todo)
        g == c.g
        deeper == SelectSeq(sortedNested, LAMBDA o :
                    o # nested /\ groupContainsGroup(g.groups[nested], g.groups[o]))
    IN  With(SelectSeq([ k \in NodeIds(g) |-> k ], LAMBDA id :
               /\ nodeInsideGroup(g.nodes[id], g.groups[nested])
               /\ \A k \in DOMAIN deeper :
                    ~nodeInsideGroup(g.nodes[id], g.groups[deeper[k]])),
             LAMBDA nestedMemberIds :
        With(layoutGroupContents(g, c.processed, nested, nestedMemberIds,
                                 deeper, config),
             LAMBDA inner :
          tokenNested(
            [ g |-> resizeGroupToFitMembers(inner.g, nested, nestedMemberIds,
                                            config),
              processed |-> inner.processed,
              b |-> c.b,
              contentEndY |-> c.contentEndY,
              tracked |-> [ k \in DOMAIN c.tracked |->
                              IF k = nested THEN nestedMemberIds
                              ELSE c.tracked[k] ] ],
            Tail(todo), sortedNested, config)))

(* The loop over the direct nested groups: a processed one only counts     *)
(* for the bounds; another one is, in default mode, moved below the        *)
(* content, then laid out and fitted to its own members.                   *)
nestedPass(c, todo, nestedGroups, mode, startX, config) ==
  IF todo = <<>> THEN c
  ELSE IF Head(todo) \in c.processed
  THEN LET rect == c.g.groups[Head(todo)]
       IN  nestedPass([ c EXCEPT !.b = extend(c.b, rect.x, rect.y, rect.w, rect.h) ],
                      Tail(todo), nestedGroups, mode, startX, config)
  ELSE
    LET nestedGroup == Head(todo)
        g == c.g
        rect == g.groups[nestedGroup]
        deltaX == startX - rect.x
        deltaY == c.contentEndY + config.verticalGap - rect.y
    IN  With(collectNestedGroups(g, nestedGroup, nestedGroups),
             LAMBDA nestedChildren :
        With(collectDirectMembers(g, nestedGroup, nestedChildren),
             LAMBDA nestedMembers :
        With(layoutGroupContents(
               IF mode.type = "default" /\ (deltaX # 0 \/ deltaY # 0)
               THEN translateGroupWithMembers(g, nestedGroup, deltaX, deltaY,
                                              nestedMembers, nestedGroups)
               ELSE g,
               c.processed, nestedGroup, nestedMembers, nestedChildren, config),
             LAMBDA inner :
        With(resizeGroupToFitMembers(inner.g, nestedGroup, nestedMembers, config),
             LAMBDA fitted :
          LET after == fitted.groups[nestedGroup]
          IN  nestedPass(
                [ c EXCEPT
                    !.g = fitted,
                    !.processed = inner.processed,
                    !.contentEndY = Max(c.contentEndY, after.y + after.h),
                    !.b = extend(c.b, after.x, after.y, after.w, after.h) ],
                Tail(todo), nestedGroups, mode, startX, config)))))

(* The token layout: the nested groups are laid out first, then the        *)
(* members and the direct nested groups are arranged as the token says.    *)
tokenLayout(c0, members, nestedGroups, mode, startX, startY, config) ==
  With(sortDeepestFirst(c0.g, nestedGroups), LAMBDA sortedNested :
  With(tokenNested(c0, sortedNested, sortedNested, config), LAMBDA t1 :
  With(directOf(t1.g, nestedGroups, nestedGroups), LAMBDA directItems :
    tokenApply(t1,
      arrangeByMode(
        [ k \in DOMAIN members |->
            [ id |-> members[k],
              width |-> t1.g.nodes[members[k]].w,
              height |-> t1.g.nodes[members[k]].h,
              originalX |-> t1.g.nodes[members[k]].x,
              originalY |-> t1.g.nodes[members[k]].y ] ]
        \o
        [ k \in DOMAIN directItems |->
            [ id |-> 0 - directItems[k],
              width |-> t1.g.groups[directItems[k]].w,
              height |-> t1.g.groups[directItems[k]].h,
              originalX |-> t1.g.groups[directItems[k]].x,
              originalY |-> t1.g.groups[directItems[k]].y ] ],
        mode, startX, startY, config),
      nestedGroups))))

(* The direct nested groups in the order of the second loop: from top to   *)
(* bottom, from left to right.                                             *)
directNestedGroups(g, nestedGroups) ==
  StableSort(directOf(g, sortDeepestFirst(g, nestedGroups), nestedGroups),
             LAMBDA a, b :
               \/ g.groups[a].y < g.groups[b].y
               \/ /\ g.groups[a].y = g.groups[b].y
                  /\ g.groups[a].x < g.groups[b].x)

(* layoutGroupContents: the graph and the processed groups after the       *)
(* contents of the group were laid out and the group was fitted to the     *)
(* content that was positioned.                                            *)
layoutGroupContents(g, processed, gi, memberIds, nestedGroups, config) ==
  LET members == SelectSeq(memberIds, LAMBDA id : ~IsFixed(g.nodes[id]))
      startX  == g.groups[gi].x + config.groupPadding
      startY  == g.groups[gi].y + config.groupPadding + GROUP_TITLE_HEIGHT
      c0 == [ g |-> g, processed |-> processed \cup {gi}, b |-> noBounds,
              contentEndY |-> startY,
              tracked |-> [ k \in GroupIds(g) |-> <<>> ] ]
      padding == config.groupPadding
  IN  IF gi \in processed THEN [ g |-> g, processed |-> processed ]
      ELSE IF members = <<>> /\ nestedGroups = <<>>
      THEN [ g |-> g, processed |-> processed \cup {gi} ]
      ELSE
        With(parseLayoutToken(g.groups[gi].title), LAMBDA mode :
        With(IF mode.type # "default"
             THEN tokenLayout(c0, members, nestedGroups, mode, startX, startY,
                              config)
             ELSE IF members # <<>>
             THEN defaultMembers(c0, memberIds, members, startX, startY, config)
             ELSE c0,
             LAMBDA c1 :
        With(nestedPass(c1, directNestedGroups(c1.g, nestedGroups),
                        nestedGroups, mode, startX, config),
             LAMBDA c2 :
          [ g |-> IF c2.b.none THEN c2.g
                  ELSE updateGroupBounds(c2.g, gi,
                         c2.b.minX - padding,
                         c2.b.minY - padding - GROUP_TITLE_HEIGHT,
                         c2.b.maxX - c2.b.minX + padding * 2,
                         c2.b.maxY - c2.b.minY + padding * 2 + GROUP_TITLE_HEIGHT),
            processed |-> c2.processed ])))

(* The loop of layoutSelectedGroups over the selected roots: acc is [g,    *)
(* processed, totalNodes].                                                 *)
RECURSIVE layoutRoots(_, _, _)
layoutRoots(acc, todo, config) ==
  IF todo = <<>> THEN acc
  ELSE
    With(collectNestedGroups(acc.g, Head(todo), [ k \in GroupIds(acc.g) |-> k ]),
         LAMBDA nestedGroups :
    With(collectDirectMembers(acc.g, Head(todo), nestedGroups),
         LAMBDA memberIds :
    With(layoutGroupContents(acc.g, acc.processed, Head(todo), memberIds,
                             nestedGroups, config),
         LAMBDA done :
      layoutRoots(
        [ g |-> done.g, processed |-> done.processed,
          totalNodes |-> acc.totalNodes + Len(memberIds)
            + SumSeq([ k \in DOMAIN nestedGroups |->
                Len(collectDirectMembers(done.g, nestedGroups[k],
                      collectNestedGroups(done.g, nestedGroups[k],
                                          nestedGroups))) ]) ],
        Tail(todo), config))))

(* The selected groups that no other selected group contains.              *)
topLevelSelected(g, selectedGroupIds) ==
  SelectSeq([ k \in GroupIds(g) |-> k ], LAMBDA gi :
    /\ gi \in selectedGroupIds
    /\ \A other \in selectedGroupIds \cap GroupIds(g) :
         other = gi \/ ~groupContainsGroup(g.groups[other], g.groups[gi]))

(* layoutSelectedGroups: the graph after the call, the result the call     *)
(* returns and the number of redraws it asked for.                         *)
(* An entry point that differs from the one of the code: it asks for the  *)
(* redraw before it looks for the selected groups, so that the early       *)
(* return redraws too.                                                     *)
layoutSelectedGroupsRedrawFirst(g, selectedGroupIds, config) ==
  IF selectedGroupIds \cap GroupIds(g) = {}
  THEN [ g |-> g, redraws |-> 1,
         result |-> [ nodeCount |-> 0, groupCount |-> 0 ] ]
  ELSE With(layoutRoots([ g |-> g, processed |-> {}, totalNodes |-> 0 ],
                        topLevelSelected(g, selectedGroupIds), config),
            LAMBDA done :
         [ g |-> done.g, redraws |-> 1,
           result |-> [ nodeCount |-> done.totalNodes,
                        groupCount |-> Cardinality(done.processed) ] ])

layoutSelectedGroups(g, selectedGroupIds, config) ==
  IF selectedGroupIds \cap GroupIds(g) = {}
  THEN [ g |-> g, redraws |-> 0,
         result |-> [ nodeCount |-> 0, groupCount |-> 0 ] ]
  ELSE With(layoutRoots([ g |-> g, processed |-> {}, totalNodes |-> 0 ],
                        topLevelSelected(g, selectedGroupIds), config),
            LAMBDA done :
         [ g |-> done.g, redraws |-> 1,
           result |-> [ nodeCount |-> done.totalNodes,
                        groupCount |-> Cardinality(done.processed) ] ])

(* ------------------------------- inputs --------------------------------- *)

(* Number of layout calls made on one graph. *)
MaxCalls == 2

(* Largest number of group ids handed to layoutSelectedGroups. *)
MaxSelected == 2

(* A node of the workflow: pos = r[1], r[2], size = r[3], r[4] in pixels. *)
NodeAt(r, type, pinned, locked) ==
  [ x |-> Px(r[1]), y |-> Px(r[2]), w |-> Px(r[3]), h |-> Px(r[4]),
    pinned |-> pinned, locked |-> locked, type |-> type ]

(* A group of the workflow: bounding = r in pixels. *)
GroupAt(r, title) ==
  [ x |-> Px(r[1]), y |-> Px(r[2]), w |-> Px(r[3]), h |-> Px(r[4]),
    title |-> title ]

Link(a, b) == [ origin |-> a, target |-> b ]

NodeKinds == { "KSampler", "Reroute" }

(* The size a workflow gives a node of the kind. *)
SizeOf(type) == IF type \in RerouteTypes THEN << 90, 30 >> ELSE << 200, 100 >>

Place(spot, type, pinned, locked) ==
  NodeAt(spot \o SizeOf(type), type, pinned, locked)

LinkSets ==
  { << >>,
    << Link(1, 2) >>,
    << Link(1, 2), Link(2, 3) >>,
    << Link(1, 2), Link(1, 3) >>,
    << Link(1, 2), Link(2, 1) >>,
    << Link(1, 2), Link(2, 3), Link(3, 2) >> }

(* Graphs without groups: three nodes, the second and third of either    *)
(* kind, the first possibly pinned and the third possibly locked.         *)
FlatGraphs ==
  { [ nodes  |-> << Place(<< 100, 100 >>, "KSampler", p1, FALSE),
                    Place(s2, t2, FALSE, FALSE),
                    Place(s3, t3, FALSE, l3) >>,
      groups |-> << >>,
      links  |-> ls ] :
    p1 \in BOOLEAN, l3 \in BOOLEAN,
    s2 \in { << 400, 100 >>, << 150, 100 >> },
    s3 \in { << 400, 100 >>, << 700, 300 >> },
    t2 \in NodeKinds, t3 \in NodeKinds,
    ls \in LinkSets }

GroupA == << 300, 300, 500, 400 >>
GroupB == << 330, 450, 300, 200 >>
GroupC == << 340, 470, 260, 170 >>
GroupD == << 900, 300, 400, 300 >>
GroupE == << 330, 510, 300, 190 >>
GroupF == << 340, 530, 260, 170 >>

NoTitle == << "G" >>
TokenTitle == << "[", "2", "c", "o", "l", "]" >>

GroupLayouts ==
  { << GroupAt(GroupA, NoTitle) >>,
    << GroupAt(GroupA, NoTitle), GroupAt(GroupB, NoTitle) >>,
    << GroupAt(GroupA, NoTitle), GroupAt(GroupB, NoTitle),
       GroupAt(GroupC, NoTitle) >>,
    << GroupAt(GroupA, NoTitle), GroupAt(GroupA, NoTitle) >>,
    << GroupAt(GroupA, NoTitle), GroupAt(GroupD, NoTitle) >>,
    << GroupAt(GroupA, TokenTitle), GroupAt(GroupB, NoTitle) >>,
    << GroupAt(GroupA, NoTitle), GroupAt(GroupE, NoTitle),
       GroupAt(GroupF, NoTitle) >> }

(* Graphs with groups: a node outside A, in the content of A or just      *)
(* below A, a node in the title strip of A, beside the first in A or in   *)
(* the content of B, a node in the content of B and C or in D.  E and F   *)
(* are nested groups that end at the lower edge of A.                     *)
GroupedGraphs ==
  { [ nodes  |-> << Place(s1, "KSampler", FALSE, FALSE),
                    Place(s2, "KSampler", p2, FALSE),
                    Place(s3, "KSampler", FALSE, FALSE) >>,
      groups |-> gs,
      links  |-> ls ] :
    gs \in GroupLayouts,
    s1 \in { << 100, 100 >>, << 340, 360 >>, << 400, 705 >> },
    s2 \in { << 340, 320 >>, << 560, 360 >>, << 335, 510 >> },
    s3 \in { << 350, 520 >>, << 920, 400 >> },
    p2 \in BOOLEAN,
    ls \in { << >>, << Link(1, 2) >>, << Link(2, 3) >>,
             << Link(1, 2), Link(2, 3) >> } }

HorizontalTitle ==
  << "r", "o", "w", " ", "[", "H", "o", "r", "i", "z", "o", "n", "t", "a", "l", "]" >>
VerticalTitle ==
  << "[", "v", "e", "r", "t", "i", "c", "a", "l", "]" >>

TokenLayouts ==
  { << GroupAt(GroupA, HorizontalTitle) >>,
    << GroupAt(GroupA, VerticalTitle) >>,
    << GroupAt(GroupA, HorizontalTitle), GroupAt(GroupB, VerticalTitle) >>,
    << GroupAt(GroupA, VerticalTitle), GroupAt(GroupB, HorizontalTitle) >>,
    << GroupAt(GroupA, HorizontalTitle), GroupAt(GroupB, VerticalTitle),
       GroupAt(GroupC, NoTitle) >>,
    << GroupAt(GroupA, NoTitle), GroupAt(GroupB, HorizontalTitle) >> }

(* Graphs whose groups carry layout tokens: the first node outside A or    *)
(* in the content of A, the second beside it or in the content of B, the   *)
(* third in the content of B and C.                                        *)
TokenGraphs ==
  { [ nodes  |-> << Place(s1, "KSampler", FALSE, FALSE),
                    Place(s2, "KSampler", p2, FALSE),
                    Place(<< 350, 520 >>, "KSampler", FALSE, FALSE) >>,
      groups |-> gs,
      links  |-> ls ] :
    gs \in TokenLayouts,
    s1 \in { << 100, 100 >>, << 340, 360 >> },
    s2 \in { << 560, 360 >>, << 335, 510 >> },
    p2 \in BOOLEAN,
    ls \in { << >>, << Link(1, 2) >>, << Link(2, 3) >> } }

(* The graph without nodes, with and without a group.                      *)
EmptyGraphs ==
  { [ nodes |-> << >>, groups |-> gs, links |-> << >> ] :
    gs \in { << >>, << GroupAt(GroupA, NoTitle) >> } }

(* Graphs of a single node, possibly pinned or in a group.                 *)
SingleGraphs ==
  { [ nodes  |-> << Place(<< 340, 360 >>, t, p, FALSE) >>,
      groups |-> gs,
      links  |-> << >> ] :
    t \in NodeKinds, p \in BOOLEAN,
    gs \in { << >>, << GroupAt(GroupA, NoTitle) >> } }

(* Graphs of one source linked to two sinks, the sinks of the usual size,  *)
(* wide or tall.                                                           *)
SinkSizes == { << 200, 100 >>, << 520, 100 >>, << 200, 260 >> }

BranchGraphs ==
  { [ nodes  |-> << Place(<< 100, 100 >>, "KSampler", FALSE, FALSE),
                    NodeAt(<< 400, 100 >> \o z2, "KSampler", FALSE, FALSE),
                    NodeAt(<< 400, 400 >> \o z3, "KSampler", FALSE, FALSE) >>,
      groups |-> << >>,
      links  |-> << Link(1, 2), Link(1, 3) >> ] :
    z2 \in SinkSizes, z3 \in SinkSizes }

(* Graphs of a chain source -> reroute -> reroute -> target, the target    *)
(* possibly pinned or inside a group.                                      *)
ChainGraphs ==
  { [ nodes  |-> << Place(<< 100, 100 >>, "KSampler", FALSE, FALSE),
                    Place(s2, "Reroute", FALSE, FALSE),
                    Place(<< 500, 200 >>, "Reroute", FALSE, FALSE),
                    Place(s4, "KSampler", p4, FALSE) >>,
      groups |-> gs,
      links  |-> << Link(1, 2), Link(2, 3), Link(3, 4) >> ] :
    s2 \in { << 350, 150 >>, << 100, 100 >> },
    s4 \in { << 700, 300 >>, << 400, 100 >> },
    p4 \in BOOLEAN,
    gs \in { << >>, << GroupAt(<< 650, 200, 400, 300 >>, NoTitle) >> } }

(* Graphs with a margin: two linked nodes, a narrow third node without     *)
(* links and a fourth without links, narrow or wide, that may be pinned or *)
(* lie in the group A.                                                     *)
MarginGraphs ==
  { [ nodes  |-> << Place(<< 100, 100 >>, "KSampler", FALSE, FALSE),
                    Place(<< 400, 100 >>, "KSampler", FALSE, FALSE),
                    NodeAt(<< 150, 100, 120, 80 >>, "KSampler", FALSE, FALSE),
                    NodeAt(<< 340, 360 >> \o sz4, "KSampler", p4, FALSE) >>,
      groups |-> gs,
      links  |-> << Link(1, 2) >> ] :
    sz4 \in { << 120, 80 >>, << 200, 100 >> }, p4 \in BOOLEAN,
    gs \in { << >>, << GroupAt(GroupA, NoTitle) >> } }

InputGraphs ==
  FlatGraphs \cup GroupedGraphs \cup TokenGraphs \cup EmptyGraphs
    \cup BranchGraphs \cup ChainGraphs \cup SingleGraphs
    \cup MarginGraphs

Selections(g) ==
  { ids \in SUBSET GroupIds(g) : Cardinality(ids) <= MaxSelected }

(* ---------------------------- state machine ----------------------------- *)

VARIABLES
  graph,    \* the LGraph the extension works on
  config,   \* the configuration the calls are made with
  prev,     \* the graph as it was when the last call was made
  op,       \* the last call: its name and the group ids it was given
  prevOp,   \* the call before the last one
  result,   \* the record the last call returned
  redraws,  \* number of setDirtyCanvas calls so far
  calls,    \* number of calls made so far
  pc,       \* the loop a running layoutGraph call is in, "idle" between calls
  locals,   \* the local variables of that loop, and in trail (a history
            \* variable) the configurations the call has been in
  input,    \* the arguments of a direct call of one of the exported or
            \* internal functions, fn naming the function
  output    \* the value that call returned, once it is done

vars == << graph, config, prev, op, prevOp, result, redraws, calls, pc, locals,
           input, output >>

NoCall == [ name |-> "none", ids |-> {} ]

NoInput == [ fn |-> "none" ]

NoOutput == [ done |-> FALSE ]

NoLocals == [ todo |-> <<>>, current |-> 0, visited |-> {},
              queue |-> <<>>, inDegree |-> <<>>, successors |-> <<>>,
              trail |-> {} ]

Init ==
  /\ graph \in InputGraphs
  /\ config = DEFAULT_CONFIG
  /\ prev = graph
  /\ op = NoCall
  /\ prevOp = NoCall
  /\ result = [ nodeCount |-> 0, groupCount |-> 0 ]
  /\ redraws = 0
  /\ calls = 0
  /\ pc = "idle"
  /\ locals = NoLocals
  /\ input = NoInput
  /\ output = NoOutput

(* layoutGraph(graph, config) as one step: enabled when the call returns.  *)
LayoutGraph ==
  /\ pc = "idle"
  /\ calls < MaxCalls
  /\ buildLayoutGraphReturns(graph, config)
  /\ LET r == layoutGraph(graph, config)
     IN  /\ graph' = r.g
         /\ result' = r.result
         /\ redraws' = redraws + r.redraws
  /\ prev' = graph
  /\ prevOp' = op
  /\ op' = [ name |-> "layoutGraph", ids |-> {} ]
  /\ calls' = calls + 1
  /\ UNCHANGED << config, pc, locals, input, output >>

(* layoutSelectedGroups(graph, selectedGroupIds, config). *)
LayoutSelectedGroups ==
  /\ pc = "idle"
  /\ calls < MaxCalls
  /\ \E ids \in Selections(graph) :
       LET r == layoutSelectedGroups(graph, ids, config)
       IN  /\ graph' = r.g
           /\ result' = r.result
           /\ redraws' = redraws + r.redraws
           /\ op' = [ name |-> "layoutSelectedGroups", ids |-> ids ]
  /\ prev' = graph
  /\ prevOp' = op
  /\ calls' = calls + 1
  /\ UNCHANGED << config, pc, locals, input, output >>

Next == LayoutGraph \/ LayoutSelectedGroups

Spec == Init /\ [][Next]_vars

(* ------------------- layoutGraph, one loop turn a step ------------------ *)

(* The calls of traceRerouteChain that findRerouteChains makes: one for    *)
(* every link that enters a reroute from a node that is no reroute, the    *)
(* reroutes in id order.                                                   *)
RECURSIVE chainStarts(_, _, _)
chainStarts(g, reroutes, todo) ==
  IF todo = <<>> THEN <<>>
  ELSE
    LET fed == SelectSeq(incomingLinks(g, Head(todo)),
                         LAMBDA l : g.links[l].origin \notin reroutes)
    IN  [ k \in DOMAIN fed |-> Head(todo) ]
          \o chainStarts(g, reroutes, Tail(todo))

(* nextReroute of one turn of the loop of traceRerouteChain: the target    *)
(* of the last output link that leads to a reroute not yet visited, 0      *)
(* when there is none.                                                     *)
nextReroute(g, reroutes, visited, currentId) ==
  LET outgoing == outgoingLinks(g, currentId)
      nexts == { k \in DOMAIN outgoing :
                   /\ g.links[outgoing[k]].target \in reroutes
                   /\ g.links[outgoing[k]].target \notin visited }
  IN  IF nexts = {} THEN 0 ELSE g.links[outgoing[MaxOf(nexts, 0)]].target

(* The groups the sixth pass of buildLayoutGraph hands to                  *)
(* getTopLevelGroup: the group of every node, in id order, that is         *)
(* neither disconnected nor part of a collapsed chain.                     *)
topLevelWalks(g, cfg) ==
  LET classified == classifyNodes(g)
      rerouteChains ==
        IF cfg.collapseReroutes /\ classified.reroutes # {}
        THEN findRerouteChains(g, classified.reroutes) ELSE <<>>
      hier == buildGroupHierarchy(g.groups)
      nodeToGroup == [ id \in NodeIds(g) |->
                         innermostGroup(g.groups, hier, g.nodes[id]) ]
      looked == SelectSeq([ k \in NodeIds(g) |-> k ], LAMBDA id :
                  /\ id \notin classified.disconnected
                  /\ id \notin getRerouteNodeIds(rerouteChains)
                  /\ nodeToGroup[id] # 0)
  IN  [ k \in DOMAIN looked |-> nodeToGroup[looked[k]] ]

(* The queue, the in-degrees and the successors assignLayers starts with.  *)
kahnStart(state) ==
  LET ids == SetToSeq(state.nodeIds)
  IN  [ NoLocals EXCEPT
          !.queue = SelectSeq(ids, LAMBDA id :
                                state.nodes[id].predecessors = <<>>),
          !.inDegree = [ id \in state.nodeIds |->
                           Len(state.nodes[id].predecessors) ],
          !.successors = [ id \in state.nodeIds |->
                             state.nodes[id].successors ] ]

(* The configuration a running call is in: the loop and its locals.       *)
Configuration == << pc, [ locals EXCEPT !.trail = {} ] >>

(* The locals after a loop turn that leaves them as next.                  *)
Turn(next) == [ next EXCEPT !.trail = locals.trail \cup { Configuration } ]

(* The call is made: layoutGraph returns at once on a graph without nodes  *)
(* and starts with findRerouteChains otherwise.                            *)
CallLayoutGraph ==
  /\ pc = "idle"
  /\ calls < MaxCalls
  /\ pc' = IF graph.nodes = <<>> THEN "return" ELSE "findRerouteChains"
  /\ locals' =
       [ NoLocals EXCEPT
           !.todo = IF config.collapseReroutes
                    THEN chainStarts(graph, classifyNodes(graph).reroutes,
                                     SetToSeq(classifyNodes(graph).reroutes))
                    ELSE <<>> ]
  /\ UNCHANGED << graph, config, prev, op, prevOp, result, redraws, calls,
                  input, output >>

(* One turn of the while loop of traceRerouteChain; when the loop is left, *)
(* the next call of traceRerouteChain; when there is none, on to the       *)
(* sixth pass of buildLayoutGraph.                                         *)
TraceRerouteChain ==
  /\ pc = "findRerouteChains"
  /\ LET reroutes == classifyNodes(graph).reroutes
         currentId == locals.current
     IN  IF currentId \in reroutes /\ currentId \notin locals.visited
         THEN /\ locals' =
                   Turn([ locals EXCEPT
                            !.visited = locals.visited \cup {currentId},
                            !.current = nextReroute(graph, reroutes,
                                          locals.visited \cup {currentId},
                                          currentId) ])
              /\ pc' = pc
         ELSE IF locals.todo # <<>>
         THEN /\ locals' = Turn([ locals EXCEPT
                                       !.current = Head(locals.todo),
                                       !.todo = Tail(locals.todo) ])
              /\ pc' = pc
         ELSE /\ locals' = Turn([ NoLocals EXCEPT
                                    !.todo = topLevelWalks(graph, config) ])
              /\ pc' = "getTopLevelGroup"
  /\ UNCHANGED << graph, config, prev, op, prevOp, result, redraws, calls,
                  input, output >>

(* One turn of the while loop of getTopLevelGroup; when the loop is left,  *)
(* the next call of getTopLevelGroup; when there is none, on to            *)
(* assignLayers.                                                           *)
GetTopLevelGroup ==
  /\ pc = "getTopLevelGroup"
  /\ LET hier == buildGroupHierarchy(graph.groups)
         parentGroup == IF locals.current = 0 THEN 0
                        ELSE hier[locals.current].parentGroup
     IN  IF parentGroup # 0
         THEN /\ locals' = Turn([ locals EXCEPT !.current = parentGroup ])
              /\ pc' = pc
         ELSE IF locals.todo # <<>>
         THEN /\ locals' = Turn([ locals EXCEPT
                                       !.current = Head(locals.todo),
                                       !.todo = Tail(locals.todo) ])
              /\ pc' = pc
         ELSE /\ locals' = Turn(kahnStart(buildLayoutGraph(graph, config)))
              /\ pc' = "assignLayers"
  /\ UNCHANGED << graph, config, prev, op, prevOp, result, redraws, calls,
                  input, output >>

(* One turn of the while loop of assignLayers; with the queue empty the    *)
(* rest of the pipeline has only loops over finite lists.                  *)
AssignLayers ==
  /\ pc = "assignLayers"
  /\ IF locals.queue # <<>>
     THEN LET nodeId == Head(locals.queue)
              succs  == locals.successors[nodeId]
              deg    == [ id \in DOMAIN locals.inDegree |->
                            IF Contains(succs, id) THEN locals.inDegree[id] - 1
                            ELSE locals.inDegree[id] ]
          IN  /\ locals' =
                   Turn([ locals EXCEPT
                            !.queue = Tail(locals.queue)
                                        \o SelectSeq(succs,
                                                     LAMBDA id : deg[id] = 0),
                            !.inDegree = deg ])
              /\ pc' = pc
     ELSE /\ locals' = Turn(NoLocals)
          /\ pc' = "return"
  /\ UNCHANGED << graph, config, prev, op, prevOp, result, redraws, calls,
                  input, output >>

(* The call returns: the graph is as layoutGraph leaves it.                *)
Return ==
  /\ pc = "return"
  /\ \E r \in { layoutGraph(graph, config) } :
       /\ graph' = r.g
       /\ result' = r.result
       /\ redraws' = redraws + r.redraws
  /\ prev' = graph
  /\ prevOp' = op
  /\ op' = [ name |-> "layoutGraph", ids |-> {} ]
  /\ calls' = calls + 1
  /\ pc' = "idle"
  /\ locals' = NoLocals
  /\ UNCHANGED << config, input, output >>

Running == TraceRerouteChain \/ GetTopLevelGroup \/ AssignLayers \/ Return

StepNext ==
  \/ CallLayoutGraph
  \/ TraceRerouteChain
  \/ GetTopLevelGroup
  \/ AssignLayers
  \/ Return

(* A call that was made keeps running: the pipeline is synchronous and     *)
(* has no suspension point.  Nothing forces a call to be made.             *)
StepSpec == Init /\ [][StepNext]_vars /\ WF_vars(Running)

(* -------------------- direct calls of single functions ------------------ *)

(* Largest number of parts a title is put together from. *)
MaxTitleParts == 2

(* Largest number of items handed to arrangeByMode. *)
MaxItems == 4

(* Largest number of layout nodes and of edges of a layout state. *)
MaxLayoutNodes == 4
MaxEdges == 4

(* The parts of the titles: text without token, the tokens in mixed case,  *)
(* and text that only looks like a token.                                  *)
TitleParts ==
  { << "G", " " >>,
    << "[", "h", "o", "r", "i", "z", "o", "n", "t", "a", "l", "]" >>,
    << "[", "V", "e", "r", "t", "i", "c", "a", "l", "]" >>,
    << "[", "1", "R", "O", "W", "]" >>,
    << "[", "2", "r", "o", "w", "]" >>,
    << "[", "1", "c", "o", "l", "]" >>,
    << "[", "3", "C", "o", "l", "]" >>,
    << "[", "0", "R", "O", "W", "]" >>,
    << "[", "V", "E", "R", "T", "I", "C", "A", "L" >> }

RECURSIVE TitlesOf(_)
TitlesOf(parts) ==
  IF parts = 0 THEN { << >> }
  ELSE TitlesOf(parts - 1)
         \cup { t \o p : t \in TitlesOf(parts - 1), p \in TitleParts }

Titles == TitlesOf(MaxTitleParts)

(* The items of a group: nodes of two sizes at spots that share an X or a  *)
(* Y, in any order.                                                        *)
ItemShapes ==
  { [ width |-> Px(sz[1]), height |-> Px(sz[2]),
      originalX |-> Px(at[1]), originalY |-> Px(at[2]) ] :
    sz \in { << 200, 100 >>, << 90, 30 >> },
    at \in { << 340, 360 >>, << 340, 520 >>, << 560, 360 >> } }

ItemLists ==
  UNION { { [ k \in 1..n |->
                [ id |-> k, width |-> f[k].width, height |-> f[k].height,
                  originalX |-> f[k].originalX, originalY |-> f[k].originalY ] ] :
            f \in [ 1..n -> ItemShapes ] } :
          n \in 0..MaxItems }

GridTitles ==
  { << "[", "2", "C", "O", "L", "]" >>, << "[", "3", "c", "o", "l", "]" >>,
    << "[", "2", "r", "o", "w", "]" >>, << "[", "3", "R", "O", "W", "]" >> }

(* The layout states handed to assignLayers: up to MaxLayoutNodes layout   *)
(* nodes and up to MaxEdges edges between different nodes, predecessors    *)
(* and successors filled in as the seventh pass of buildLayoutGraph does.  *)
EdgeSets(n) ==
  { es \in SUBSET ((1..n) \X (1..n)) : Cardinality(es) <= MaxEdges }

LayoutStateOf(n, es) ==
  [ nodeIds |-> 1..n,
    nodes |-> [ id \in 1..n |->
      [ width |-> Px(200), height |-> Px(100),
        predecessors |-> SetToSeq({ a \in 1..n : << a, id >> \in es }),
        successors   |-> SetToSeq({ b \in 1..n : << id, b >> \in es }) ] ] ]

LayoutStates ==
  UNION { { LayoutStateOf(n, es) : es \in EdgeSets(n) } : n \in 1..MaxLayoutNodes }

(* Largest number of links of a graph handed to buildLayoutGraph. *)
MaxWires == 4

(* The links a wiring is made of: from the source into reroutes, between   *)
(* reroutes, from reroutes to the target, and a second source into the     *)
(* first reroute.                                                          *)
WirePairs ==
  { Link(1, 2), Link(2, 3), Link(2, 4), Link(3, 5), Link(4, 5), Link(3, 4),
    Link(5, 2) }

(* The lists of at most n different links.                                 *)
RECURSIVE WiresOf(_)
WiresOf(n) ==
  IF n = 0 THEN { << >> }
  ELSE LET shorter == WiresOf(n - 1)
       IN  shorter \cup { Append(ws, l) : ws \in shorter, l \in WirePairs }

Wirings == { ws \in WiresOf(MaxWires) :
               \A i, j \in DOMAIN ws : i # j => ws[i] # ws[j] }

(* Graphs of five nodes: a source, three nodes of either kind and a        *)
(* target; without group, with the source and the target in one group, or  *)
(* with the target alone in a group.                                       *)
WiredGraphs ==
  { [ nodes  |-> << Place(<< 340, 360 >>, "KSampler", FALSE, FALSE),
                    Place(<< 100, 100 >>, t2, FALSE, FALSE),
                    Place(<< 100, 200 >>, t3, FALSE, FALSE),
                    Place(<< 100, 800 >>, t4, FALSE, FALSE),
                    Place(<< 560, 360 >>, "KSampler", FALSE, FALSE) >>,
      groups |-> gs,
      links  |-> ws ] :
    t2 \in NodeKinds, t3 \in NodeKinds, t4 \in NodeKinds,
    gs \in { << >>, << GroupAt(GroupA, NoTitle) >>,
             << GroupAt(<< 540, 300, 260, 400 >>, NoTitle) >> },
    ws \in Wirings }

(* Largest number of nodes handed to packNodesIntoRows. *)
MaxPacked == 4

(* The sizes of the nodes handed to packNodesIntoRows, node k at place k:  *)
(* widths of which two or three fill a row of 800 with gaps of 100,        *)
(* heights within and beyond the ratio of 2.                               *)
NodeSizes ==
  { [ width |-> Px(sz[1]), height |-> Px(sz[2]) ] :
    sz \in { << 200, 100 >>, << 500, 100 >>, << 250, 150 >>, << 200, 260 >>,
             << 90, 30 >> } }

PackedSizes == UNION { [ 1..n -> NodeSizes ] : n \in 0..MaxPacked }

(* maxColumns: 0 auto, 1 one node per row, 2 and more a fixed count. *)
ColumnPolicies == { 0, 1, 2, 3 }

(* Largest number of groups handed to buildGroupHierarchy. *)
MaxGroups == 3

(* The groups handed to buildGroupHierarchy: the rectangles of the graphs  *)
(* above in every order, the same rectangle more than once too.            *)
GroupLists ==
  UNION { [ 1..n -> { GroupAt(r, NoTitle) :
                        r \in { GroupA, GroupB, GroupC, GroupD, GroupE,
                                GroupF } } ] :
          n \in 0..MaxGroups }

CallInputs ==
  { [ fn |-> "parseLayoutToken", title |-> t ] : t \in Titles }
    \cup { [ fn |-> "arrangeByMode", title |-> t, items |-> its ] :
             t \in GridTitles, its \in ItemLists }
    \cup { [ fn |-> "assignLayers", state |-> st ] : st \in LayoutStates }
    \cup { [ fn |-> "buildLayoutGraph", graph |-> g ] : g \in WiredGraphs }
    \cup { [ fn |-> "packNodesIntoRows", sizes |-> sz, maxColumns |-> c ] :
             sz \in PackedSizes, c \in ColumnPolicies }
    \cup { [ fn |-> "buildGroupHierarchy", groups |-> gs ] :
             gs \in GroupLists }

CallInit ==
  /\ graph = [ nodes |-> << >>, groups |-> << >>, links |-> << >> ]
  /\ config = DEFAULT_CONFIG
  /\ prev = graph
  /\ op = NoCall
  /\ prevOp = NoCall
  /\ result = [ nodeCount |-> 0, groupCount |-> 0 ]
  /\ redraws = 0
  /\ calls = 0
  /\ pc = "idle"
  /\ locals = NoLocals
  /\ input \in CallInputs
  /\ output = NoOutput

(* parseLayoutToken(title). *)
ParseLayoutToken ==
  /\ input.fn = "parseLayoutToken"
  /\ ~output.done
  /\ output' = [ done |-> TRUE, value |-> parseLayoutToken(input.title) ]
  /\ UNCHANGED << graph, config, prev, op, prevOp, result, redraws, calls,
                  pc, locals, input >>

(* arrangeByMode(allItems, parseLayoutToken(group.title), startX, startY,  *)
(* config), as layoutGroupContents calls it for a group at (300, 300).     *)
ArrangeByMode ==
  /\ input.fn = "arrangeByMode"
  /\ ~output.done
  /\ output' = [ done |-> TRUE,
                 value |-> arrangeByMode(input.items,
                             parseLayoutToken(input.title),
                             Px(300) + config.groupPadding,
                             Px(300) + config.groupPadding + GROUP_TITLE_HEIGHT,
                             config) ]
  /\ UNCHANGED << graph, config, prev, op, prevOp, result, redraws, calls,
                  pc, locals, input >>

(* assignLayers(state). *)
CallAssignLayers ==
  /\ input.fn = "assignLayers"
  /\ ~output.done
  /\ output' = [ done |-> TRUE, value |-> assignLayers(input.state) ]
  /\ UNCHANGED << graph, config, prev, op, prevOp, result, redraws, calls,
                  pc, locals, input >>

(* buildLayoutGraph(graph, fullConfig). *)
BuildLayoutGraph ==
  /\ input.fn = "buildLayoutGraph"
  /\ ~output.done
  /\ buildLayoutGraphReturns(input.graph, config)
  /\ output' = [ done |-> TRUE, value |-> buildLayoutGraph(input.graph, config) ]
  /\ UNCHANGED << graph, config, prev, op, prevOp, result, redraws, calls,
                  pc, locals, input >>

(* packNodesIntoRows(nodeIds, sizes, config). *)
PackNodesIntoRows ==
  /\ input.fn = "packNodesIntoRows"
  /\ ~output.done
  /\ output' = [ done |-> TRUE,
                 value |-> packNodesIntoRows(
                             [ k \in DOMAIN input.sizes |-> k ], input.sizes,
                             [ config EXCEPT !.maxColumns = input.maxColumns ]) ]
  /\ UNCHANGED << graph, config, prev, op, prevOp, result, redraws, calls,
                  pc, locals, input >>

(* buildGroupHierarchy(layoutGroups). *)
BuildGroupHierarchy ==
  /\ input.fn = "buildGroupHierarchy"
  /\ ~output.done
  /\ output' = [ done |-> TRUE, value |-> buildGroupHierarchy(input.groups) ]
  /\ UNCHANGED << graph, config, prev, op, prevOp, result, redraws, calls,
                  pc, locals, input >>

CallNext ==
  \/ ParseLayoutToken
  \/ ArrangeByMode
  \/ CallAssignLayers
  \/ BuildLayoutGraph
  \/ PackNodesIntoRows
  \/ BuildGroupHierarchy

CallSpec == CallInit /\ [][CallNext]_vars

(* ------------------- resolveAllOverlaps, step by step ------------------- *)

(* The graphs resolveAllOverlaps is called on: what the phases 1 to 7 of   *)
(* layoutGraph make of a graph with nodes.                                 *)
ResolveInputs ==
  { [ fn |-> "resolveAllOverlaps", graph |-> g ] :
      g \in { g2 \in InputGraphs \ GroupedGraphs :
                g2.nodes # << >> /\ buildLayoutGraphReturns(g2, DEFAULT_CONFIG) } }

(* The configurations of a layout: the default one and, for the graphs     *)
(* whose layers hold several nodes, every column policy.                   *)
ConfigsOf(g) ==
  IF g \in BranchGraphs
  THEN { [ DEFAULT_CONFIG EXCEPT !.maxColumns = c ] : c \in ColumnPolicies }
  ELSE { DEFAULT_CONFIG }

ResolveInit ==
  /\ input \in ResolveInputs
  /\ graph = input.graph
  /\ config \in ConfigsOf(graph)
  /\ prev = graph
  /\ op = NoCall
  /\ prevOp = NoCall
  /\ result = [ nodeCount |-> 0, groupCount |-> 0 ]
  /\ redraws = 0
  /\ calls = 0
  /\ pc = "idle"
  /\ locals = NoLocals
  /\ output = NoOutput

(* The phases before, then the head of resolveAllOverlaps: the entities    *)
(* are collected and, when there are two at least, the X pass begins.      *)
CollectEntities ==
  /\ pc = "idle"
  /\ input.fn = "resolveAllOverlaps"
  /\ LET laid     == layoutPhases(input.graph, config)
         entities == collectEntities(laid.resized.g, laid.state)
     IN  /\ graph' = laid.resized.g
         /\ locals' = [ state |-> laid.state, layers |-> laid.placed.layers,
                        pos |-> laid.placed.pos, entities |-> entities,
                        axis |-> "x", i |-> 0, j |-> 0, iterations |-> 0,
                        changed |-> TRUE ]
         /\ pc' = IF Len(entities) < 2 THEN "done" ELSE "while"
  /\ UNCHANGED << config, prev, op, prevOp, result, redraws, calls, input,
                  output >>

(* The head of the while loop of a scanline pass holds: the entities are   *)
(* sorted and the sweep starts with the first pair.                        *)
ScanlineWhile ==
  /\ pc = "while"
  /\ locals.changed
  /\ locals.iterations < Len(locals.entities) * 2
  /\ locals' = [ locals EXCEPT
       !.entities = StableSort(locals.entities, LAMBDA a, b :
                      \/ a[locals.axis] < b[locals.axis]
                      \/ (a[locals.axis] = b[locals.axis]
                            /\ a.priority > b.priority)),
       !.changed = FALSE,
       !.iterations = @ + 1,
       !.i = 1,
       !.j = 2 ]
  /\ pc' = "pair"
  /\ UNCHANGED << graph, config, prev, op, prevOp, result, redraws, calls,
                  input, output >>

(* The body of the inner loop for the pair (i, j), and the step to the     *)
(* next pair or, after the last pair, back to the head of the while loop.  *)
ScanlinePair ==
  /\ pc = "pair"
  /\ LET n   == Len(locals.entities)
         acc == scanlinePair([ entities |-> locals.entities, g |-> graph,
                               changed |-> locals.changed ],
                             locals.state, locals.axis, locals.i, locals.j)
     IN  /\ graph' = acc.g
         /\ locals' = [ locals EXCEPT
              !.entities = acc.entities,
              !.changed = acc.changed,
              !.i = IF locals.j < n THEN locals.i ELSE locals.i + 1,
              !.j = IF locals.j < n THEN locals.j + 1 ELSE locals.i + 2 ]
         /\ pc' = IF locals.j < n \/ locals.i + 2 <= n THEN "pair" ELSE "while"
  /\ UNCHANGED << config, prev, op, prevOp, result, redraws, calls, input,
                  output >>

(* The while loop of a scanline pass is left: after the X pass the Y pass  *)
(* begins, after the Y pass resolveAllOverlaps returns.                    *)
ScanlineReturn ==
  /\ pc = "while"
  /\ ~(locals.changed /\ locals.iterations < Len(locals.entities) * 2)
  /\ IF locals.axis = "x"
     THEN /\ locals' = [ locals EXCEPT !.axis = "y", !.changed = TRUE,
                                       !.iterations = 0 ]
          /\ pc' = "while"
     ELSE /\ locals' = locals
          /\ pc' = "done"
  /\ UNCHANGED << graph, config, prev, op, prevOp, result, redraws, calls,
                  input, output >>

ResolveNext ==
  \/ CollectEntities
  \/ ScanlineWhile
  \/ ScanlinePair
  \/ ScanlineReturn

ResolveSpec == ResolveInit /\ [][ResolveNext]_vars

(* ------------------------- the tests' geometry -------------------------- *)

(* boxesOverlap with gap 0: the two rectangles share a point of their      *)
(* interiors.                                                              *)
boxesOverlap(a, b) ==
  /\ a.x < b.x + b.w
  /\ a.x + a.w > b.x
  /\ a.y < b.y + b.h
  /\ a.y + a.h > b.y

(* isNodeInsideGroup: the rectangle inner lies in the rectangle outer.     *)
isNodeInsideGroup(inner, outer) ==
  /\ inner.x >= outer.x
  /\ inner.y >= outer.y
  /\ inner.x + inner.w <= outer.x + outer.w
  /\ inner.y + inner.h <= outer.y + outer.h

(* getNodesInsideGroups: the smallest group whose rectangle holds the      *)
(* rectangle of the node, the first one among equals; 0 when there is      *)
(* none.                                                                   *)
getNodesInsideGroups(g, id) ==
  LET around == { gi \in GroupIds(g) :
                    isNodeInsideGroup(g.nodes[id], g.groups[gi]) }
      best   == { gi \in around :
                    \A k \in around : Area(g.groups[gi]) <= Area(g.groups[k]) }
  IN  MinOf(best, 0)

(* The nodes that lie in no group and the groups that lie in no other      *)
(* group.                                                                  *)
UngroupedNodes(g) == { id \in NodeIds(g) : getNodesInsideGroups(g, id) = 0 }

TopLevelGroups(g) ==
  { gi \in GroupIds(g) :
      \A k \in GroupIds(g) \ {gi} :
        ~isNodeInsideGroup(g.groups[gi], g.groups[k]) }

AfterLayoutGraph == op.name = "layoutGraph"

AfterLayoutSelectedGroups == op.name = "layoutSelectedGroups"

(* ------------------------------- claims --------------------------------- *)

(* C1: after layoutGraph no two top-level entities (groups that lie in no  *)
(* other group, nodes that lie in no group) have intersecting rectangles.  *)
C1_NoOverlap ==
  AfterLayoutGraph =>
    /\ \A id \in UngroupedNodes(graph) :
         /\ \A other \in UngroupedNodes(graph) \ {id} :
              ~boxesOverlap(graph.nodes[id], graph.nodes[other])
         /\ \A gi \in TopLevelGroups(graph) :
              ~boxesOverlap(graph.nodes[id], graph.groups[gi])
    /\ \A gi \in TopLevelGroups(graph) :
         \A other \in TopLevelGroups(graph) \ {gi} :
           ~boxesOverlap(graph.groups[gi], graph.groups[other])

Abs(n) == IF n < 0 THEN 0 - n ELSE n

(* capturePositions compared as assertIdempotent does: no node position,   *)
(* group position or group size of a and b differs by more than the        *)
(* tolerance.                                                              *)
SamePositions(a, b, tolerance) ==
  /\ \A id \in NodeIds(a) :
       /\ Abs(a.nodes[id].x - b.nodes[id].x) <= tolerance
       /\ Abs(a.nodes[id].y - b.nodes[id].y) <= tolerance
  /\ \A gi \in GroupIds(a) :
       /\ Abs(a.groups[gi].x - b.groups[gi].x) <= tolerance
       /\ Abs(a.groups[gi].y - b.groups[gi].y) <= tolerance
       /\ Abs(a.groups[gi].w - b.groups[gi].w) <= tolerance
       /\ Abs(a.groups[gi].h - b.groups[gi].h) <= tolerance

(* C2: a second layoutGraph right after a first one changes no node        *)
(* position, group position or group size by more than 5 px.               *)
C2_Idempotent ==
  (AfterLayoutGraph /\ prevOp.name = "layoutGraph")
    => SamePositions(prev, graph, Px(5))

(* C3: a node whose rectangle lay in a group's rectangle before            *)
(* layoutGraph (its owner the smallest such group) lies in that group's    *)
(* rectangle after it.                                                     *)
C3_ContainmentPreserved ==
  AfterLayoutGraph =>
    \A id \in NodeIds(prev) :
      LET owner == getNodesInsideGroups(prev, id)
      IN  owner # 0 =>
            isNodeInsideGroup(graph.nodes[id], graph.groups[owner])

(* C4: after layoutGraph the right edge of the origin of a link between    *)
(* two nodes that are no reroutes is not right of the right edge of its    *)
(* target.                                                                 *)
C4_TopologicalOrder ==
  AfterLayoutGraph =>
    \A li \in LinkIds(graph) :
      LET source == graph.nodes[graph.links[li].origin]
          target == graph.nodes[graph.links[li].target]
      IN  (source.type # "Reroute" /\ target.type # "Reroute") =>
            source.x + source.w <= target.x + target.w

(* C5: a pinned or locked node is where it was after layoutGraph and       *)
(* after layoutSelectedGroups.                                             *)
C5_FixedNodesStay ==
  (AfterLayoutGraph \/ AfterLayoutSelectedGroups) =>
    \A id \in NodeIds(prev) :
      IsFixed(prev.nodes[id]) =>
        /\ graph.nodes[id].x = prev.nodes[id].x
        /\ graph.nodes[id].y = prev.nodes[id].y

(* C6: a layoutGraph call that was made returns.  Every loop of the call   *)
(* is deterministic in its locals, so a call fails to return exactly when  *)
(* it comes back to a configuration it has been in: the property is that   *)
(* a running call is never in a configuration of its trail.                *)
C6_Terminates == pc # "idle" => Configuration \notin locals.trail

(* The groups a layoutSelectedGroups call with these ids works on: the     *)
(* selected groups no other selected group contains and the groups nested  *)
(* in them.                                                                *)
ProcessedGroups(g, ids) ==
  LET roots == topLevelSelected(g, ids)
  IN  UNION { {roots[k]} \cup Range(collectNestedGroups(g, roots[k],
                                      [ i \in GroupIds(g) |-> i ])) :
              k \in DOMAIN roots }

(* The node touches the group: its origin is in the content area or its    *)
(* rectangle lies in the rectangle of the group.                           *)
TouchesGroup(node, group) ==
  nodeInsideGroup(node, group) \/ isNodeInsideGroup(node, group)

(* The node is in the group by every reading: origin in the content area   *)
(* and rectangle in the rectangle of the group.                            *)
WhollyInGroup(node, group) ==
  nodeInsideGroup(node, group) /\ isNodeInsideGroup(node, group)

(* C7: layoutSelectedGroups leaves every node outside the processed        *)
(* groups, and every group that is not processed, where and as it was.     *)
C7_OutsideUntouched ==
  AfterLayoutSelectedGroups =>
    LET processed == ProcessedGroups(prev, op.ids)
    IN  /\ \A id \in NodeIds(prev) :
             (\A gi \in processed :
                ~TouchesGroup(prev.nodes[id], prev.groups[gi]))
               => graph.nodes[id] = prev.nodes[id]
        /\ \A gi \in GroupIds(prev) \ processed :
             graph.groups[gi] = prev.groups[gi]

(* C8: a second layoutSelectedGroups with the same ids right after the     *)
(* first moves no node by more than 1 px.                                  *)
C8_SelectedIdempotent ==
  (/\ AfterLayoutSelectedGroups
   /\ prevOp.name = "layoutSelectedGroups"
   /\ prevOp.ids = op.ids)
    => \A id \in NodeIds(prev) :
         /\ Abs(graph.nodes[id].x - prev.nodes[id].x) <= Px(1)
         /\ Abs(graph.nodes[id].y - prev.nodes[id].y) <= Px(1)

(* C9: after layoutSelectedGroups every group nested in a root lies in     *)
(* the rectangle of the root, and every node that was in a processed       *)
(* group lies in the rectangle of that group.                              *)
C9_NestedStayInside ==
  AfterLayoutSelectedGroups =>
    LET roots == topLevelSelected(prev, op.ids)
    IN  /\ \A k \in DOMAIN roots :
             \A n \in Range(collectNestedGroups(prev, roots[k],
                              [ i \in GroupIds(prev) |-> i ])) :
               isNodeInsideGroup(graph.groups[n], graph.groups[roots[k]])
        /\ \A gi \in ProcessedGroups(prev, op.ids) :
             \A id \in NodeIds(prev) :
               WhollyInGroup(prev.nodes[id], prev.groups[gi])
                 => isNodeInsideGroup(graph.nodes[id], graph.groups[gi])

(* C10: layoutSelectedGroups with the ids of a group P and of a group C    *)
(* that P contains leaves the graph and returns the counts that            *)
(* layoutSelectedGroups with the id of P alone does.                       *)
C10_ChildAbsorbed ==
  AfterLayoutSelectedGroups =>
    \A P \in op.ids : \A C \in op.ids \ {P} :
      (op.ids = {P, C} /\ groupContainsGroup(prev.groups[P], prev.groups[C]))
        => LET alone == layoutSelectedGroups(prev, {P}, config)
           IN  graph = alone.g /\ result = alone.result

(* The direct members buildLayoutGraph gives the group: the nodes whose    *)
(* innermost group it is.                                                  *)
memberIdsOf(g, gi) ==
  LET hier == buildGroupHierarchy(g.groups)
  IN  { id \in NodeIds(g) : innermostGroup(g.groups, hier, g.nodes[id]) = gi }

(* C11: after layoutGraph the members of a group with a token that are     *)
(* neither pinned nor locked are arranged by the token: under [HORIZONTAL] *)
(* or [1ROW] they have one Y and are ordered from left to right as they    *)
(* were, under [VERTICAL] or [1COL] they have one X.                       *)
C11_TokensHonoured ==
  AfterLayoutGraph =>
    \A gi \in GroupIds(prev) :
      LET mode == parseLayoutToken(prev.groups[gi].title)
          members == { id \in memberIdsOf(prev, gi) : ~IsFixed(prev.nodes[id]) }
      IN  /\ mode.type = "horizontal" =>
                \A a \in members : \A b \in members :
                  /\ graph.nodes[a].y = graph.nodes[b].y
                  /\ prev.nodes[a].x < prev.nodes[b].x
                       => graph.nodes[a].x < graph.nodes[b].x
          /\ mode.type = "vertical" =>
                \A a \in members : \A b \in members :
                  graph.nodes[a].x = graph.nodes[b].x

(* The groups nested in the group, at any depth, and those of them that    *)
(* no other nested group contains.                                         *)
NestedIn(g, gi) == collectNestedGroups(g, gi, [ i \in GroupIds(g) |-> i ])

DirectlyNestedIn(g, gi) == Range(directOf(g, NestedIn(g, gi), NestedIn(g, gi)))

(* The direct member nodes of the group that are neither pinned nor        *)
(* locked.                                                                 *)
FreeMembers(g, gi) ==
  { id \in Range(collectDirectMembers(g, gi, NestedIn(g, gi))) :
      ~IsFixed(g.nodes[id]) }

(* C12: after layoutSelectedGroups the items of every processed group      *)
(* with a token, its free direct member nodes and the rectangles of its    *)
(* directly nested groups, have one top Y under [HORIZONTAL] and one left  *)
(* X under [VERTICAL].                                                     *)
C12_SelectedTokens ==
  AfterLayoutSelectedGroups =>
    \A gi \in ProcessedGroups(prev, op.ids) :
      LET mode == parseLayoutToken(prev.groups[gi].title)
          xs == { graph.nodes[id].x : id \in FreeMembers(prev, gi) }
                  \cup { graph.groups[k].x : k \in DirectlyNestedIn(prev, gi) }
          ys == { graph.nodes[id].y : id \in FreeMembers(prev, gi) }
                  \cup { graph.groups[k].y : k \in DirectlyNestedIn(prev, gi) }
      IN  /\ mode.type = "horizontal" => Cardinality(ys) <= 1
          /\ mode.type = "vertical" => Cardinality(xs) <= 1

(* C13: arrangeByMode under [kCOL] (k >= 2) deals the n items, sorted by   *)
(* original position (X, then Y, then the order they came in), round-robin *)
(* into columns: item i of the sorted list is in column i mod k, the       *)
(* columns lie side by side in that order, so that there are min(k, n)     *)
(* distinct X and the sizes of two columns differ by at most one.  [kROW]  *)
(* does the same with rows and Y.                                          *)
C13_RoundRobin ==
  (input.fn = "arrangeByMode" /\ output.done) =>
    LET mode  == parseLayoutToken(input.title)
        items == input.items
        n     == Len(items)
        k     == mode.count
        Before(j, i) ==
          \/ items[j].originalX < items[i].originalX
          \/ /\ items[j].originalX = items[i].originalX
             /\ items[j].originalY < items[i].originalY
          \/ /\ items[j].originalX = items[i].originalX
             /\ items[j].originalY = items[i].originalY
             /\ j < i
        line(i)  == Cardinality({ j \in 1..n : Before(j, i) }) % k
        at(i)    == CHOOSE a \in Range(output.value) : a.id = items[i].id
        coord(i) == IF mode.type = "columns" THEN at(i).x ELSE at(i).y
        size(c)  == Cardinality({ i \in 1..n : line(i) = c })
    IN  mode.type \in { "columns", "rows" } =>
          /\ Len(output.value) = n
          /\ { a.id : a \in Range(output.value) } = 1..n
          /\ \A i \in 1..n : \A j \in 1..n :
               /\ line(i) = line(j) <=> coord(i) = coord(j)
               /\ line(i) < line(j) => coord(i) < coord(j)
          /\ Cardinality({ coord(i) : i \in 1..n }) = Min(k, n)
          /\ \A c \in 0..(Min(k, n) - 1) : \A d \in 0..(Min(k, n) - 1) :
               size(c) - size(d) <= 1

(* Four items under [3COL] were arranged into three columns.               *)
C13_Witness ==
  /\ input.fn = "arrangeByMode"
  /\ output.done
  /\ Len(input.items) = 4
  /\ parseLayoutToken(input.title) = [ type |-> "columns", count |-> 3 ]
  /\ Cardinality({ a.x : a \in Range(output.value) }) = 3

(* The places of the title where the word stands in brackets, in any case  *)
(* of its letters, after the digits of a grid token when digits is TRUE.   *)
TokenPlaces(title, word, digits) ==
  LET SameLetter(a, b) ==
        \/ a = b
        \/ \E k \in DOMAIN LowerCase :
             { a, b } = { LowerCase[k], UpperCase[k] }
      lead == IF digits THEN 2 ELSE 1
  IN  { i \in 1..(Len(title) - Len(word) - lead) :
          /\ title[i] = "["
          /\ digits => \E d \in DOMAIN Digits19 : title[i + 1] = Digits19[d]
          /\ \A k \in DOMAIN word : SameLetter(title[i + lead + k - 1], word[k])
          /\ title[i + lead + Len(word)] = "]" }

(* The number in the leftmost grid token with the word; 0 without one.     *)
TokenNumber(title, word) ==
  LET places == TokenPlaces(title, word, TRUE)
      first  == CHOOSE i \in places : \A j \in places : i <= j
  IN  IF places = {} THEN 0
      ELSE CHOOSE d \in DOMAIN Digits19 : title[first + 1] = Digits19[d]

(* C14: parseLayoutToken reads the title without regard to case and with   *)
(* the precedence [HORIZONTAL], [VERTICAL], [kROW], [kCOL] (k from 1 to    *)
(* 9), wherever the tokens stand in the title; [1ROW] is horizontal,       *)
(* [1COL] is vertical, and a title without token gives the default mode.   *)
C14_TokenPrecedence ==
  (input.fn = "parseLayoutToken" /\ output.done) =>
    LET title == input.title
        rows  == TokenNumber(title, << "r", "o", "w" >>)
        cols  == TokenNumber(title, << "c", "o", "l" >>)
        mode  == output.value
    IN  IF TokenPlaces(title, << "h", "o", "r", "i", "z", "o", "n", "t", "a", "l" >>,
                       FALSE) # {}
        THEN mode.type = "horizontal"
        ELSE IF TokenPlaces(title, << "v", "e", "r", "t", "i", "c", "a", "l" >>,
                            FALSE) # {}
        THEN mode.type = "vertical"
        ELSE IF rows = 1 THEN mode.type = "horizontal"
        ELSE IF rows > 1 THEN mode.type = "rows" /\ mode.count = rows
        ELSE IF cols = 1 THEN mode.type = "vertical"
        ELSE IF cols > 1 THEN mode.type = "columns" /\ mode.count = cols
        ELSE mode.type = "default"

(* A title with [Vertical] in front of [horizontal] was parsed as          *)
(* horizontal.                                                             *)
C14_Witness ==
  /\ input.fn = "parseLayoutToken"
  /\ output.done
  /\ input.title = << "[", "V", "e", "r", "t", "i", "c", "a", "l", "]",
                      "[", "h", "o", "r", "i", "z", "o", "n", "t", "a", "l", "]" >>
  /\ output.value.type = "horizontal"

(* A graph without groups of one source and two sinks, each sink linked    *)
(* to the source alone, none of them a reroute, pinned or locked.          *)
SourceWithTwoSinks(g) ==
  /\ Len(g.nodes) = 3
  /\ g.groups = << >>
  /\ g.links = << Link(1, 2), Link(1, 3) >>
  /\ \A id \in NodeIds(g) :
       g.nodes[id].type = "KSampler" /\ ~IsFixed(g.nodes[id])

(* The two sinks go into one packed row: the second of them, taken in the *)
(* order of decreasing height, fits beside the first within maxRowWidth    *)
(* and the heights differ by a factor of 2 at most.                        *)
SinksShareRow(g, cfg) ==
  LET a == g.nodes[2]
      b == g.nodes[3]
  IN  /\ a.w + cfg.horizontalGap + b.w <= cfg.maxRowWidth
      /\ Min(a.h, b.h) * 2 >= Max(a.h, b.h)

(* C15 as stated: for one source linked to two independent sinks           *)
(* layoutGraph makes 2 layers and the two sinks stand one above the other: *)
(* their Y ranges do not overlap.                                          *)
C15_TwoSinksStacked ==
  (AfterLayoutGraph /\ SourceWithTwoSinks(prev) /\ config = DEFAULT_CONFIG) =>
    LET a == graph.nodes[2]
        b == graph.nodes[3]
    IN  /\ result.layerCount = 2
        /\ a.y + a.h <= b.y \/ b.y + b.h <= a.y

(* C15, amended: layoutGraph makes 2 layers and puts both sinks right of   *)
(* the source without overlap; sinks that fit into one packed row stand    *)
(* side by side at one Y, a horizontal gap apart, and only sinks that do   *)
(* not fit stand one above the other with disjoint Y ranges.               *)
C15_TwoSinksPacked ==
  (AfterLayoutGraph /\ SourceWithTwoSinks(prev) /\ config = DEFAULT_CONFIG) =>
    LET source == graph.nodes[1]
        a      == graph.nodes[2]
        b      == graph.nodes[3]
    IN  /\ result.layerCount = 2
        /\ source.x + source.w + config.horizontalGap <= Min(a.x, b.x)
        /\ IF SinksShareRow(prev, config)
           THEN /\ a.y = b.y
                /\ \/ a.x + a.w + config.horizontalGap = b.x
                   \/ b.x + b.w + config.horizontalGap = a.x
           ELSE /\ a.x = b.x
                /\ a.y + a.h <= b.y \/ b.y + b.h <= a.y

(* layoutGraph has put two sinks that fit into one row side by side.      *)
C15_Witness ==
  /\ AfterLayoutGraph
  /\ SourceWithTwoSinks(prev)
  /\ config = DEFAULT_CONFIG
  /\ SinksShareRow(prev, config)
  /\ graph # prev
  /\ graph.nodes[2].y = graph.nodes[3].y

(* A graph whose nodes are a chain source -> reroute -> reroute -> target. *)
RerouteChainOfTwo(g) ==
  /\ Len(g.nodes) = 4
  /\ g.links = << Link(1, 2), Link(2, 3), Link(3, 4) >>
  /\ ~isRerouteNode(g.nodes[1]) /\ ~isRerouteNode(g.nodes[4])
  /\ isRerouteNode(g.nodes[2]) /\ isRerouteNode(g.nodes[3])

(* The centre of reroute i of n lies at the parameter i / (n + 1) of the   *)
(* segment from the middle of the right side of the source to the pos of   *)
(* the target, the two anchors of restoreReroutePositions.                 *)
OnSegment(g, reroute, i, n, source, target) ==
  LET r      == g.nodes[reroute]
      startX == g.nodes[source].x + g.nodes[source].w
      startY2 == 2 * g.nodes[source].y + g.nodes[source].h
      endX   == g.nodes[target].x
      endY   == g.nodes[target].y
  IN  /\ (n + 1) * (2 * r.x + r.w - 2 * startX) = 2 * i * (endX - startX)
      /\ (n + 1) * (2 * r.y + r.h - startY2) = i * (2 * endY - startY2)

(* C16: after layoutGraph on a chain source -> reroute -> reroute ->       *)
(* target both reroutes lie on the straight segment from the output anchor *)
(* of the source to the input anchor of the target, at the parameters 1/3  *)
(* and 2/3, measured on the final positions of source and target.          *)
C16_ReroutesInterpolated ==
  (AfterLayoutGraph /\ RerouteChainOfTwo(prev)) =>
    /\ OnSegment(graph, 2, 1, 2, 1, 4)
    /\ OnSegment(graph, 3, 2, 2, 1, 4)

(* Every position and size of the graph is a finite number.                *)
FiniteCoordinates(g) ==
  /\ \A id \in NodeIds(g) :
       LET n == g.nodes[id]
       IN  isFinite(n.x) /\ isFinite(n.y) /\ isFinite(n.w) /\ isFinite(n.h)
  /\ \A gi \in GroupIds(g) :
       LET r == g.groups[gi]
       IN  isFinite(r.x) /\ isFinite(r.y) /\ isFinite(r.w) /\ isFinite(r.h)

(* The groups of the graph that own no node and contain no group.          *)
GroupsWithoutContent(g) ==
  LET hier == buildGroupHierarchy(g.groups)
  IN  { gi \in GroupIds(g) :
          /\ memberIdsOf(g, gi) = {}
          /\ \A c \in GroupIds(g) : hier[c].parentGroup # gi }

(* C17: after layoutGraph every position and size of a node or group is a *)
(* finite number, whatever the graph: empty, of a single node, without     *)
(* links, with groups without members, with reroute chains without         *)
(* targets.  No start value of a minimum or maximum reaches a coordinate.  *)
C17_FiniteCoordinates ==
  (AfterLayoutGraph /\ FiniteCoordinates(prev)) => FiniteCoordinates(graph)

(* layoutGraph has laid out a graph that has a node and a group without    *)
(* content.                                                                *)
C17_Witness ==
  /\ AfterLayoutGraph
  /\ prev.nodes # << >>
  /\ GroupsWithoutContent(prev) # {}
  /\ graph # prev
  /\ FiniteCoordinates(graph)

(* The call o on the graph g returns early: layoutGraph on a graph without *)
(* nodes, layoutSelectedGroups when none of the ids is a group of g.       *)
ReturnsEarly(o, g) ==
  IF o.name = "layoutGraph" THEN g.nodes = << >>
  ELSE o.ids \cap GroupIds(g) = {}

C19_NodeCount ==
  AfterLayoutGraph => result.nodeCount = Len(prev.nodes)

(* The layout nodes that a walk of at most fuel edges from the node a      *)
(* passes, a itself not counted unless an edge comes back to it.           *)
RECURSIVE ReachedFrom(_, _, _)
ReachedFrom(nodes, a, fuel) ==
  IF fuel = 0 THEN {}
  ELSE LET next == Range(nodes[a].successors)
       IN  next \cup UNION { ReachedFrom(nodes, b, fuel - 1) : b \in next }

(* The layout graph has no cycle.                                          *)
Acyclic(state) ==
  \A id \in state.nodeIds :
    id \notin ReachedFrom(state.nodes, id, Cardinality(state.nodeIds))

(* C20: on an acyclic layout graph assignLayers gives layer 0 to exactly   *)
(* the layout nodes without predecessors and to every other node the layer *)
(* 1 + the maximum of the layers of its predecessors; hence every edge     *)
(* goes to a strictly higher layer and the layers used are 0, 1, 2, ...    *)
(* without a hole.                                                         *)
C20_LongestPathLayers ==
  (input.fn = "assignLayers" /\ output.done /\ Acyclic(input.state)) =>
    LET nodes  == input.state.nodes
        ids    == input.state.nodeIds
        layer  == output.value.layer
        layers == output.value.layers
        used   == { layer[id] : id \in ids }
    IN  /\ \A id \in ids :
             LET preds == Range(nodes[id].predecessors)
             IN  /\ layer[id] = 0 <=> preds = {}
                 /\ preds # {} =>
                      /\ \E p \in preds : layer[id] = 1 + layer[p]
                      /\ \A p \in preds : layer[id] >= 1 + layer[p]
        /\ \A a \in ids : \A b \in Range(nodes[a].successors) :
             layer[a] < layer[b]
        /\ used = 0..(Cardinality(used) - 1)
        /\ \A k \in DOMAIN layers :
             /\ layers[k].index = k - 1
             /\ Range(layers[k].nodes) = { id \in ids : layer[id] = k - 1 }
        /\ Len(layers) = Cardinality(used)

(* assignLayers was called on an acyclic layout graph with a node that has *)
(* predecessors in two different layers, and made three layers or more.    *)
C20_Witness ==
  /\ input.fn = "assignLayers"
  /\ output.done
  /\ Acyclic(input.state)
  /\ Len(output.value.layers) >= 3
  /\ \E id \in input.state.nodeIds :
       \E p, q \in Range(input.state.nodes[id].predecessors) :
         output.value.layer[p] < output.value.layer[q]

(* The layout nodes that Kahn's order never reaches: those on a cycle and  *)
(* those behind one.                                                       *)
Residual(state) ==
  LET n == Cardinality(state.nodeIds)
      onCycle == { id \in state.nodeIds : id \in ReachedFrom(state.nodes, id, n) }
  IN  onCycle \cup UNION { ReachedFrom(state.nodes, a, n) : a \in onCycle }

(* Every layout node is in exactly one layer of the list, the one of its   *)
(* layer number, and no layer number is negative.                          *)
EveryNodeLayered(state, value) ==
  /\ \A id \in state.nodeIds :
       /\ value.layer[id] >= 0
       /\ Cardinality({ k \in DOMAIN value.layers :
                          Contains(value.layers[k].nodes, id) }) = 1
       /\ \E k \in DOMAIN value.layers :
            /\ Contains(value.layers[k].nodes, id)
            /\ value.layers[k].index = value.layer[id]
  /\ \A k \in DOMAIN value.layers :
       Range(value.layers[k].nodes) \subseteq state.nodeIds

(* C21 as stated: on a layout graph with a cycle assignLayers ends, every  *)
(* layout node is in exactly one layer with an index >= 0, and the nodes   *)
(* that Kahn's order never reached get layer 0.                            *)
C21_ResidualAtZero ==
  (input.fn = "assignLayers" /\ output.done /\ ~Acyclic(input.state)) =>
    /\ EveryNodeLayered(input.state, output.value)
    /\ \A id \in Residual(input.state) : output.value.layer[id] = 0

(* C21, amended: on a layout graph with a cycle assignLayers ends and      *)
(* every layout node is in exactly one layer with an index >= 0.  The      *)
(* nodes that Kahn's order never reached are taken last, in the order of   *)
(* the node map: such a node goes one layer behind the farthest of its     *)
(* predecessors that have a layer by then (the nodes Kahn's order reached  *)
(* and the residual nodes before it), and gets layer 0 only when it has    *)
(* no such predecessor.                                                    *)
C21_ResidualLayers ==
  (input.fn = "assignLayers" /\ output.done /\ ~Acyclic(input.state)) =>
    LET state    == input.state
        layer    == output.value.layer
        residual == Residual(state)
    IN  /\ EveryNodeLayered(state, output.value)
        /\ \A id \in residual :
             LET resolved == { p \in Range(state.nodes[id].predecessors) :
                                 p \notin residual \/ p < id }
             IN  layer[id] = MaxOf({ layer[p] + 1 : p \in resolved }, 0)
        /\ \A id \in state.nodeIds \ residual :
             LET preds == Range(state.nodes[id].predecessors)
             IN  layer[id] = MaxOf({ layer[p] + 1 : p \in preds }, 0)

(* assignLayers was called on a layout graph with a source in front of a   *)
(* cycle and with a self-loop, and put a residual node behind layer 0.     *)
C21_Witness ==
  /\ input.fn = "assignLayers"
  /\ output.done
  /\ \E id \in input.state.nodeIds :
       Contains(input.state.nodes[id].predecessors, id)
  /\ \E id \in input.state.nodeIds : id \notin Residual(input.state)
  /\ \E id \in Residual(input.state) : output.value.layer[id] >= 2

(* The reroutes that links between reroutes lead to from the reroutes of   *)
(* the set, in at most fuel further steps.                                 *)
RECURSIVE ReroutesBehind(_, _, _)
ReroutesBehind(g, from, fuel) ==
  LET next == from \cup { g.links[l].target : l \in { l2 \in LinkIds(g) :
                            /\ g.links[l2].origin \in from
                            /\ isRerouteNode(g.nodes[g.links[l2].target]) } }
  IN  IF fuel = 0 \/ next = from THEN from
      ELSE ReroutesBehind(g, next, fuel - 1)

(* The target t is reached from the source s over reroutes alone, one at   *)
(* least; neither s nor t is a reroute.                                    *)
ReachedOverReroutes(g, s, t) ==
  /\ ~isRerouteNode(g.nodes[s])
  /\ ~isRerouteNode(g.nodes[t])
  /\ LET first == { g.links[l].target : l \in { l2 \in LinkIds(g) :
                       /\ g.links[l2].origin = s
                       /\ isRerouteNode(g.nodes[g.links[l2].target]) } }
         over  == ReroutesBehind(g, first, Len(g.nodes))
     IN  \E l \in LinkIds(g) : g.links[l].origin \in over /\ g.links[l].target = t

(* C22: collapsing reroutes keeps the connections: for every source and    *)
(* every target that is reached from it over reroutes alone, also over a   *)
(* reroute that fans out to several reroutes, the layout graph has an edge *)
(* from the source (or the representative of its top-level group) to the   *)
(* target (or its representative), unless both are in one top-level group. *)
C22_ConnectivityKept ==
  (input.fn = "buildLayoutGraph" /\ output.done) =>
    LET g     == input.graph
        state == output.value
        top(id) == IF state.nodeToGroup[id] = 0 THEN 0
                   ELSE getTopLevelGroup(state.groups, state.nodeToGroup[id])
        effective(id) == IF top(id) = 0 THEN id
                         ELSE state.groupRepresentatives[top(id)]
    IN  \A s, t \in NodeIds(g) :
          (ReachedOverReroutes(g, s, t) /\ ~(top(s) # 0 /\ top(s) = top(t))) =>
            /\ effective(s) \in state.nodeIds
            /\ effective(t) \in state.nodeIds
            /\ Contains(state.nodes[effective(s)].successors, effective(t))

(* The step pushes the entity j of the pair of a scanline pass.            *)
Pushes ==
  /\ pc = "pair"
  /\ locals'.entities[locals.j] # locals.entities[locals.j]

(* C23: in the overlap resolution the entity that is moved is the one of   *)
(* the lower priority (group > connected node > disconnected node): no     *)
(* entity is moved to clear an entity of strictly lower priority, wherever *)
(* the two stand.                                                          *)
C23_LowerPriorityMoves ==
  [][ Pushes => locals.entities[locals.i].priority
                  >= locals.entities[locals.j].priority ]_vars

(* No node and no group of the graph moves to the left or upward.          *)
NothingDecreases ==
  /\ \A id \in NodeIds(graph) :
       /\ graph'.nodes[id].x >= graph.nodes[id].x
       /\ graph'.nodes[id].y >= graph.nodes[id].y
  /\ \A gi \in GroupIds(graph) :
       /\ graph'.groups[gi].x >= graph.groups[gi].x
       /\ graph'.groups[gi].y >= graph.groups[gi].y

(* The pushed entity of the step moves by a positive amount along the axis *)
(* of the pass and not at all across it.                                   *)
PushIsForward ==
  LET before == locals.entities[locals.j]
      after  == locals'.entities[locals.j]
  IN  IF locals.axis = "x"
      THEN after.x > before.x /\ after.y = before.y
      ELSE after.y > before.y /\ after.x = before.x

(* C24: a scanline pass of the overlap resolver makes at most twice the    *)
(* number of entities sweeps, every push is a strictly positive shift to   *)
(* the right (X pass) or downward (Y pass), and no x or y of a node or a   *)
(* group decreases while resolveAllOverlaps runs.                          *)
C24_BoundedMonotonic ==
  [][ pc # "idle" =>
        /\ locals'.iterations <= Len(locals'.entities) * 2
        /\ NothingDecreases
        /\ (Pushes => PushIsForward)
        /\ (~Pushes => graph' = graph) ]_vars

(* The X pass is about to stop: its first sweep pushed a group or a node,  *)
(* its second sweep pushed nothing.                                        *)
C24_Witness ==
  /\ pc = "while"
  /\ locals.axis = "x"
  /\ locals.iterations = 2
  /\ ~locals.changed
  /\ Len(locals.entities) >= 3

(* packNodesIntoRows has returned the rows of a packing under the policy.  *)
Packed(policies) ==
  /\ input.fn = "packNodesIntoRows"
  /\ output.done
  /\ input.maxColumns \in policies

(* The ids handed in, tallest first, equal heights in the order handed in. *)
TallestFirst ==
  StableSort([ k \in DOMAIN input.sizes |-> k ], LAMBDA a, b :
               input.sizes[a].height > input.sizes[b].height)

TurnOf(id) == CHOOSE k \in DOMAIN TallestFirst : TallestFirst[k] = id

(* The width a row has when the turn of the node comes: the widths of its  *)
(* nodes before the node and the gaps between them.                        *)
WidthBefore(row, id) ==
  LET before == SelectSeq(row.nodes, LAMBDA m : TurnOf(m) < TurnOf(id))
  IN  SumSeq([ k \in DOMAIN before |-> input.sizes[before[k]].width ])
        + (Len(before) - 1) * config.horizontalGap

(* The node may join the row at its turn: the row is there, has room for   *)
(* the node after the gap given, and has a height within the ratio.        *)
MayJoin(row, id, gap) ==
  LET rowHeight == input.sizes[row.nodes[1]].height
  IN  /\ TurnOf(row.nodes[1]) < TurnOf(id)
      /\ WidthBefore(row, id) + gap + input.sizes[id].width
           <= config.maxRowWidth
      /\ \/ rowHeight = 0
         \/ /\ 2 * input.sizes[id].height >= rowHeight
            /\ input.sizes[id].height <= 2 * rowHeight

(* Every node is in the first row, in the order the rows were opened, that *)
(* it may join, and opens a row when there is none.                        *)
FirstFit(rows, gap) ==
  \A r \in DOMAIN rows : \A k \in DOMAIN rows[r].nodes :
    LET id == rows[r].nodes[k]
    IN  /\ k > 1 => MayJoin(rows[r], id, gap)
        /\ \A q \in DOMAIN rows :
             (q # r /\ MayJoin(rows[q], id, gap))
               => (k > 1 /\ TurnOf(rows[r].nodes[1]) < TurnOf(rows[q].nodes[1]))

(* Every id in one row, rows of several nodes within maxRowWidth, no node  *)
(* less than half as tall as its row.                                      *)
RowsWellFormed(rows) ==
  /\ \A id \in DOMAIN input.sizes :
       /\ Cardinality({ r \in DOMAIN rows : id \in Range(rows[r].nodes) }) = 1
       /\ \A r \in DOMAIN rows :
            Cardinality({ k \in DOMAIN rows[r].nodes :
                            rows[r].nodes[k] = id }) <= 1
  /\ \A r \in DOMAIN rows :
       /\ Range(rows[r].nodes) \subseteq DOMAIN input.sizes
       /\ Len(rows[r].nodes) >= 2 => rows[r].width <= config.maxRowWidth
       /\ \A id \in Range(rows[r].nodes) :
            2 * input.sizes[id].height >= rows[r].height

(* C25 as stated: in auto mode a node, tallest first, goes into the first  *)
(* row whose width plus the width of the node is within maxRowWidth and    *)
(* whose height is within the ratio 0.5 to 2.0, else into a new row.       *)
C25_FitsWithoutGap ==
  Packed({0}) => FirstFit(output.value, 0) /\ RowsWellFormed(output.value)

(* C25: in auto mode a node, tallest first, goes into the first row whose  *)
(* width plus horizontalGap plus the width of the node is within           *)
(* maxRowWidth and whose height is within the ratio 0.5 to 2.0, else into  *)
(* a new row; every id is in one row, a row of several nodes is within     *)
(* maxRowWidth and no node is less than half as tall as its row.           *)
C25_FirstFitWithGap ==
  Packed({0}) => FirstFit(output.value, config.horizontalGap)
                   /\ RowsWellFormed(output.value)

(* A node opened a row although an earlier row had room for its width      *)
(* alone and a fitting height, and another row holds several nodes.        *)
C25_Witness ==
  /\ Packed({0})
  /\ \E r, q \in DOMAIN output.value :
       /\ MayJoin(output.value[q], output.value[r].nodes[1], 0)
       /\ ~MayJoin(output.value[q], output.value[r].nodes[1],
                   config.horizontalGap)
  /\ \E r \in DOMAIN output.value : Len(output.value[r].nodes) >= 2

(* The rows deal the ids of the list over input.maxColumns columns: the    *)
(* id at place k of the list is in row (k - 1) \div N + 1 at column        *)
(* (k - 1) % N + 1, and no row holds anything else.                        *)
DealtInOrder(rows, order) ==
  LET N == input.maxColumns
  IN  /\ Len(rows) = (Len(order) + N - 1) \div N
      /\ \A r \in DOMAIN rows :
           rows[r].nodes = SubSeq(order, (r - 1) * N + 1,
                                  Min(r * N, Len(order)))

(* The numbers of nodes of two columns differ by one at most.              *)
ColumnsBalanced(rows) ==
  LET count(c) == Cardinality({ r \in DOMAIN rows : Len(rows[r].nodes) >= c })
  IN  \A c, d \in 1..input.maxColumns : count(c) - count(d) \in { -1, 0, 1 }

(* C26 as stated: with maxColumns = N >= 2 the nodes are dealt over the N  *)
(* columns in the order in which they were passed in, and the numbers of   *)
(* nodes of the columns differ by one at most.                             *)
C26_DealtInInputOrder ==
  Packed({2, 3}) =>
    /\ DealtInOrder(output.value, [ k \in DOMAIN input.sizes |-> k ])
    /\ ColumnsBalanced(output.value)

(* C26: with maxColumns = N >= 2 the nodes are sorted by height, tallest   *)
(* first and equal heights in the order passed in, and dealt in that order *)
(* over the N columns; the numbers of nodes of the columns differ by one   *)
(* at most.                                                                *)
C26_DealtTallestFirst ==
  Packed({2, 3}) =>
    /\ DealtInOrder(output.value, TallestFirst)
    /\ ColumnsBalanced(output.value)

(* A later node is taller than an earlier one, and the last row is not     *)
(* full.                                                                   *)
C26_Witness ==
  /\ Packed({2, 3})
  /\ TallestFirst # [ k \in DOMAIN input.sizes |-> k ]
  /\ Len(output.value) >= 2
  /\ Len(output.value[Len(output.value)].nodes) < input.maxColumns

(* The groups above group i in the hierarchy: its parent, the parent of    *)
(* its parent, and so on for as many steps as there are groups.            *)
RECURSIVE AncestorsOf(_, _, _)
AncestorsOf(hier, i, fuel) ==
  IF hier[i].parentGroup = 0 \/ fuel = 0 THEN {}
  ELSE { hier[i].parentGroup }
         \cup AncestorsOf(hier, hier[i].parentGroup, fuel - 1)

(* C27: the hierarchy of buildGroupHierarchy is a forest for every list of *)
(* group rectangles, identical ones too: no group is its own ancestor, the *)
(* parent of a group is a group of the smallest area among those that      *)
(* contain it (none when no group contains it), and the depth of a group   *)
(* is the number of its ancestors.                                         *)
C27_Forest ==
  (input.fn = "buildGroupHierarchy" /\ output.done) =>
    LET groups == input.groups
        hier   == output.value
        n      == Len(groups)
    IN  \A i \in 1..n :
          LET outers == { o \in 1..n :
                            o # i /\ groupContainsGroup(groups[o], groups[i]) }
          IN  /\ i \notin AncestorsOf(hier, i, n)
              /\ IF outers = {} THEN hier[i].parentGroup = 0
                 ELSE /\ hier[i].parentGroup \in outers
                      /\ \A o \in outers :
                           Area(groups[hier[i].parentGroup]) <= Area(groups[o])
              /\ hier[i].depth = Cardinality(AncestorsOf(hier, i, n))

(* The group gi of graph g is the rectangle around the given member nodes  *)
(* and child groups as they stand in g, plus the padding on every side and *)
(* the title bar on top.                                                   *)
BoxIsTight(g, gi, lg, padding) ==
  LET b == boundsOf(g, Range(lg.memberIds), Range(lg.childGroups))
  IN  /\ g.groups[gi].x = b.minX - padding
      /\ g.groups[gi].y = b.minY - padding - GROUP_TITLE_HEIGHT
      /\ g.groups[gi].w = b.maxX - b.minX + padding * 2
      /\ g.groups[gi].h = b.maxY - b.minY + padding * 2 + GROUP_TITLE_HEIGHT

(* C28: when layoutGraph returns, the box of every group that has a member *)
(* or a child group is the padded rectangle around the final rectangles of *)
(* its direct members and the final boxes of its child groups, extended    *)
(* upward by the title bar: the overlap resolution after the resize keeps  *)
(* the boxes tight.                                                        *)
C28_TightBoxes ==
  (AfterLayoutGraph /\ prev.nodes # << >>) =>
    LET state == buildLayoutGraph(prev, config)
    IN  \A gi \in GroupIds(graph) :
          (state.groups[gi].memberIds # << >>
             \/ state.groups[gi].childGroups # << >>)
            => BoxIsTight(graph, gi, state.groups[gi], config.groupPadding)

(* The phases before the overlap resolution are done and nothing has been  *)
(* pushed yet: the nodes stand where applyPositions put them.              *)
AfterPlacement ==
  /\ pc \in { "while", "done" }
  /\ locals.axis = "x"
  /\ locals.iterations = 0

(* The disconnected nodes that are in no group and neither pinned nor      *)
(* locked.                                                                 *)
MarginNodes ==
  { id \in locals.state.disconnectedNodes :
      locals.state.nodeToGroup[id] = 0 /\ ~IsFixed(graph.nodes[id]) }

(* The margin nodes start at startX and are pairwise disjoint, every layer *)
(* starts at startX + width or beyond, and every margin node before it.    *)
MarginZone(width) ==
  /\ \A id \in MarginNodes :
       /\ graph.nodes[id].x = config.startX
       /\ graph.nodes[id].x < config.startX + width
       /\ \A other \in MarginNodes \ {id} :
            ~boxesOverlap(graph.nodes[id], graph.nodes[other])
  /\ \A k \in DOMAIN locals.layers : locals.layers[k].x >= config.startX + width
  /\ locals.layers # << >> => locals.layers[1].x = config.startX + width

(* C29 as stated: the disconnected nodes in no group and not pinned or     *)
(* locked are placed in a zone at startX, pairwise disjoint, whose width   *)
(* is the width of the widest of them plus disconnectedGap: the first      *)
(* layer starts at startX plus that width, no layer before it, and no such *)
(* node at or beyond it.                                                   *)
C29_ZoneOfMarginNodes ==
  (AfterPlacement /\ MarginNodes # {}) =>
    MarginZone(MaxOf({ graph.nodes[id].w : id \in MarginNodes }, 0)
                 + config.disconnectedGap)

(* C29: the disconnected nodes in no group and not pinned or locked are    *)
(* placed at startX, pairwise disjoint, in a zone whose width is the width *)
(* of the widest disconnected node of the graph, those in groups and the   *)
(* pinned or locked ones included, plus disconnectedGap (0 when the graph  *)
(* has no disconnected node): the first layer starts at startX plus that   *)
(* width, no layer before it, and no placed node at or beyond it.          *)
C29_ZoneOfDisconnected ==
  AfterPlacement =>
    MarginZone(IF locals.state.disconnectedNodes = {} THEN 0
               ELSE MaxOf({ graph.nodes[id].w :
                              id \in locals.state.disconnectedNodes }, 0)
                      + config.disconnectedGap)

(* A node is placed in the margin, the layers follow, and a disconnected   *)
(* node that is in a group, pinned or locked is wider than every placed    *)
(* one.                                                                    *)
C29_Witness ==
  /\ AfterPlacement
  /\ MarginNodes # {}
  /\ locals.layers # << >>
  /\ \E wide \in locals.state.disconnectedNodes \ MarginNodes :
       \A id \in MarginNodes : graph.nodes[id].w < graph.nodes[wide].w

(* C30: after recalculateLayerXPositions, under every column policy, every *)
(* layout node lies in the band of its layer, layer.x <= node.x and        *)
(* node.x + node.width <= layer.x + layer.maxWidth, and the next layer     *)
(* starts at layer.x + layer.maxWidth + horizontalGap.                     *)
C30_NodesInsideBand ==
  AfterPlacement =>
    \A k \in DOMAIN locals.layers :
      LET layer == locals.layers[k]
      IN  /\ \A id \in Range(layer.nodes) :
               /\ layer.x <= locals.pos[id].x
               /\ locals.pos[id].x + locals.state.nodes[id].width
                    <= layer.x + layer.maxWidth
          /\ k < Len(locals.layers) =>
               locals.layers[k + 1].x
                 = layer.x + layer.maxWidth + config.horizontalGap

=============================================================================
